---- MODULE Spec2Model ----
(***************************************************************************)
(* Model of the OpenStack provider of GARM: the client of the compute API  *)
(* (client/client.go) and the provider operations built on it              *)
(* (provider/provider.go).                                                 *)
(*                                                                         *)
(* The remote compute API is the environment.  It holds a list of servers  *)
(* and answers point lookups, tag-filtered listings, creates, force        *)
(* deletes, starts and stops.  Every request may also fail with a          *)
(* transport or server-side error.  One step of the model is one remote    *)
(* request of a call together with the code that runs up to the next       *)
(* request.                                                                *)
(*                                                                         *)
(* Strings.  Identifiers that parse as a UUID are the elements of          *)
(* UUIDPool, every other string of the model does not parse as a UUID.     *)
(* A tag "key=value" is the record [k |-> key, v |-> value].               *)
(*                                                                         *)
(* Errors.  A Go error is the sequence of its layers, outermost first:     *)
(* fmt.Errorf("msg: %w", err) is <<"msg">> \o err, errors.Unwrap is Tail   *)
(* and the dynamic type of an error is its first layer.  The empty         *)
(* sequence is nil.                                                        *)
(***************************************************************************)
EXTENDS Integers, Sequences, FiniteSets, TLC

\* ------------------------------------------------------------------ bounds
\* Deadline of a status wait, in poll iterations (one iteration per second;
\* the code waits 120 seconds).
PollSecs == 2

\* ------------------------------------------------------- program constants
controllerIDTagName == "garm-controller-id"

poolIDTagName == "garm-pool-id"

\* The controller ID of the client (OpenstackClient.controllerID).  main()
\* takes it from the validated execution environment, so it is not empty.
controllerID == "cA"

\* ------------------------------------------------------------ the universe
\* The strings that parse as a UUID.  They are the server IDs of the
\* remote, which hands them out in this order and refuses a create once
\* they are used up.
UUIDPool == <<"u1", "u2">>

UUIDs == {UUIDPool[i] : i \in 1..Len(UUIDPool)}

\* Server names (none of them parses as a UUID).
Names == {"n1", "n2"}

\* The names the calls of the model ask for: servers named "n2" are the
\* ones a call by name must leave alone.
CallNames == {"n1"}

PoolIDs == {"p1", "p2"}

Statuses == {"BUILD", "ACTIVE", "SHUTOFF", "ERROR", "DELETED"}

Tag(key, value) == [k |-> key, v |-> value]

\* Tag lists a server may carry: none, the client's tags as getTags builds
\* them, another controller's, and lists with two controller tags.
TagLists ==
  { << >>,
    <<Tag(poolIDTagName, "p1"), Tag(controllerIDTagName, "cA")>>,
    <<Tag(controllerIDTagName, "cB")>>,
    <<Tag(controllerIDTagName, "cB"), Tag(controllerIDTagName, "cA")>> }

\* ------------------------------------------------------------------- state
VARIABLES
  remote,      \* the servers of the tenant, in listing order
  nextID,      \* how many UUIDs the remote has handed out
  call         \* per worker: the call in progress and its local variables

vars == <<remote, nextID, call>>

Workers == {"w1"}

\* -------------------------------------------------------------- Go errors
NoErr == << >>

Wrap(msg, err) == <<msg>> \o err

Unwrap(err) == IF Len(err) > 1 THEN Tail(err) ELSE NoErr

\* err.(gophercloud.ErrDefault404)
IsErrDefault404(err) == err # NoErr /\ Head(err) = "ErrDefault404"

ErrDefault404 == <<"ErrDefault404">>

\* Any other failure of a request (502, connection reset, ...).
ErrRemote == <<"ErrUnexpectedResponse">>

\* The innermost layer: the cause of an error.
Cause(err) == IF err = NoErr THEN "" ELSE err[Len(err)]

\* ------------------------------------------------------------ remote side
\* What the client sees of a server (ServerWithExt).
View(s) == [ID |-> s.ID, Name |-> s.Name, Status |-> s.Status, Tags |-> s.Tags]

NoServer == [ID |-> "", Name |-> "", Status |-> "", Tags |-> << >>]

TagSet(tags) == {tags[i] : i \in 1..Len(tags)}

RECURSIVE SelectSeqBy(_, _)
\* The subsequence of servers whose index satisfies keep.
SelectSeqBy(s, keep) ==
  IF s = << >> THEN << >>
  ELSE (IF keep[1] THEN <<Head(s)>> ELSE << >>)
       \o SelectSeqBy(Tail(s), [i \in 1..(Len(s) - 1) |-> keep[i + 1]])

Present(id) == \E i \in 1..Len(remote) : remote[i].ID = id

ServerByID(id) == remote[CHOOSE i \in 1..Len(remote) : remote[i].ID = id]

\* servers.Get: the server, a 404 when there is none, or a failure.  An
\* answer carries the kind of its request (req) and the tags filter the
\* request asked for (filter).
GetReplies(id) ==
  (IF Present(id)
     THEN {[req |-> "Get", filter |-> << >>,
            err |-> NoErr, srvs |-> <<View(ServerByID(id))>>]}
     ELSE {[req |-> "Get", filter |-> << >>,
            err |-> ErrDefault404, srvs |-> << >>]})
  \cup {[req |-> "Get", filter |-> << >>, err |-> ErrRemote, srvs |-> << >>]}

\* servers.List with a tags filter: the servers carrying every tag asked
\* for, in listing order, or a failure.
ListReplies(tags) ==
  { [req |-> "List", filter |-> tags, err |-> NoErr,
     srvs |-> SelectSeqBy([i \in 1..Len(remote) |-> View(remote[i])],
                          [i \in 1..Len(remote) |->
                             TagSet(tags) \subseteq TagSet(remote[i].Tags)])],
    [req |-> "List", filter |-> tags, err |-> ErrRemote, srvs |-> << >>] }

\* ------------------------------------------------- client: pure functions
\* uuid.Parse succeeds.
isUUID(data) == data \in UUIDs

RECURSIVE ControllerIDValue(_)
\* The value of the first tag with the prefix "garm-controller-id=", ""
\* when there is none (client.go 179-188).
ControllerIDValue(tags) ==
  IF tags = << >> THEN ""
  ELSE IF Head(tags).k = controllerIDTagName THEN Head(tags).v
  ELSE ControllerIDValue(Tail(tags))

\* The lookup by name keeping every server of the listing.
FilterByName_All(srvs, nameOrId) == srvs

RECURSIVE FilterByName(_, _)
\* The servers of a listing whose name equals nameOrId, in order.
FilterByName(srvs, nameOrId) ==
  IF srvs = << >> THEN << >>
  ELSE (IF Head(srvs).Name = nameOrId THEN <<Head(srvs)>> ELSE << >>)
       \o FilterByName(Tail(srvs), nameOrId)

\* The lookup asking the remote for the server whose ID is nameOrId whatever
\* nameOrId looks like.
ResolveReplies_AlwaysGet(nameOrId) == GetReplies(nameOrId)

\* The lookup by name listing every server of the tenant.
ResolveReplies_Unscoped(nameOrId) ==
  IF isUUID(nameOrId)
    THEN GetReplies(nameOrId)
    ELSE ListReplies(<< >>)

\* The remote request ListServersWithNameOrID makes, with its answers.
ResolveReplies(nameOrId) ==
  IF isUUID(nameOrId)
    THEN GetReplies(nameOrId)
    ELSE ListReplies(<<Tag(controllerIDTagName, controllerID)>>)

\* ListServersWithNameOrID without the check of the controller tag on the
\* point lookup.
ListServersWithNameOrID_NoOwnerCheck(nameOrId, reply) ==
  IF isUUID(nameOrId)
    THEN IF reply.err # NoErr
           THEN [results |-> << >>,
                 err |-> Wrap("failed to get server", reply.err)]
           ELSE [results |-> <<reply.srvs[1]>>, err |-> NoErr]
    ELSE IF reply.err # NoErr
           THEN [results |-> << >>,
                 err |-> Wrap("failed to find server by name",
                              Wrap("failed to list servers", reply.err))]
         ELSE [results |-> FilterByName(reply.srvs, nameOrId), err |-> NoErr]

\* ListServersWithNameOrID, given the answer of its remote request.
ListServersWithNameOrID(nameOrId, reply) ==
  IF isUUID(nameOrId)
    THEN IF reply.err # NoErr
           THEN [results |-> << >>,
                 err |-> Wrap("failed to get server", reply.err)]
         ELSE IF ControllerIDValue(reply.srvs[1].Tags) # controllerID
           THEN [results |-> << >>,
                 err |-> <<"server with name or ID not found">>]
         ELSE [results |-> <<reply.srvs[1]>>, err |-> NoErr]
    ELSE IF reply.err # NoErr
           THEN [results |-> << >>,
                 err |-> Wrap("failed to find server by name",
                              Wrap("failed to list servers", reply.err))]
         ELSE [results |-> FilterByName(reply.srvs, nameOrId), err |-> NoErr]

\* GetServer taking the first of several matches.
GetServer_FirstMatch(nameOrId, reply) ==
  LET r == ListServersWithNameOrID(nameOrId, reply) IN
  IF r.err # NoErr
    THEN [srv |-> NoServer, err |-> Wrap("failed to find server", r.err)]
  ELSE IF Len(r.results) = 0
    THEN [srv |-> NoServer, err |-> <<"failed to find server with name or id">>]
  ELSE [srv |-> r.results[1], err |-> NoErr]

\* GetServer, given the answer of the remote request of its lookup.
GetServer(nameOrId, reply) ==
  LET r == ListServersWithNameOrID(nameOrId, reply) IN
  IF r.err # NoErr
    THEN [srv |-> NoServer, err |-> Wrap("failed to find server", r.err)]
  ELSE IF Len(r.results) = 0
    THEN [srv |-> NoServer, err |-> <<"failed to find server with name or id">>]
  ELSE IF Len(r.results) > 1
    THEN [srv |-> NoServer,
          err |-> <<"multiple servers with name or id; manual intervention required">>]
  ELSE [srv |-> r.results[1], err |-> NoErr]

\* The predicate without the check for the ERROR status.
WaitPredicate_NoErrorState(status, reply) ==
  IF reply.err # NoErr
    THEN IF IsErrDefault404(reply.err) /\ status = "DELETED"
           THEN [ok |-> TRUE, err |-> NoErr]
           ELSE [ok |-> FALSE, err |-> Wrap("could not find server", reply.err)]
  ELSE IF reply.srvs[1].Status = status
    THEN [ok |-> TRUE, err |-> NoErr]
  ELSE [ok |-> FALSE, err |-> NoErr]

\* The predicate taking a 404 for success whatever the awaited status.
WaitPredicate_Any404(status, reply) ==
  IF reply.err # NoErr
    THEN IF IsErrDefault404(reply.err)
           THEN [ok |-> TRUE, err |-> NoErr]
           ELSE [ok |-> FALSE, err |-> Wrap("could not find server", reply.err)]
  ELSE IF reply.srvs[1].Status = status
    THEN [ok |-> TRUE, err |-> NoErr]
  ELSE IF reply.srvs[1].Status = "ERROR"
    THEN [ok |-> FALSE, err |-> <<"instance in ERROR state">>]
  ELSE [ok |-> FALSE, err |-> NoErr]

\* The predicate waitForStatus hands to gophercloud.WaitFor, given the
\* answer of its point lookup: (satisfied, error).
WaitPredicate(status, reply) ==
  IF reply.err # NoErr
    THEN IF IsErrDefault404(reply.err) /\ status = "DELETED"
           THEN [ok |-> TRUE, err |-> NoErr]
           ELSE [ok |-> FALSE, err |-> Wrap("could not find server", reply.err)]
  ELSE IF reply.srvs[1].Status = status
    THEN [ok |-> TRUE, err |-> NoErr]
  ELSE IF reply.srvs[1].Status = "ERROR"
    THEN [ok |-> FALSE, err |-> <<"instance in ERROR state">>]
  ELSE [ok |-> FALSE, err |-> NoErr]

\* getTags of provider/spec.go.
getTags(ctrlID, poolID) ==
  <<Tag(poolIDTagName, poolID), Tag(controllerIDTagName, ctrlID)>>

\* ------------------------------------------------------- the call records
\* A worker with no call in progress.
IdleCall ==
  [op |-> "none", pc |-> "idle",
   nameOrID |-> "",        \* the argument of delete, get, start, stop
   name |-> "",            \* createOpts.Name / name
   tags |-> << >>,         \* createOpts.Tags
   waitForDelete |-> FALSE,\* the argument of DeleteServer
   srv |-> NoServer,       \* the named result srv, or the server resolved
   err |-> NoErr,          \* the named result err
   target |-> "",          \* nameOrID of the DeleteServer in progress
   results |-> << >>,      \* DeleteServer: the matches not yet deleted
   waitID |-> "",          \* waitForStatus: id
   waitStatus |-> "",      \* waitForStatus: status
   elapsed |-> 0,          \* waitForStatus: seconds since the wait began
   delErr |-> NoErr,       \* what the rollback DeleteServer returned
   origErr |-> NoErr,      \* err when the deferred function began
   rollback |-> FALSE,     \* the deferred DeleteServer was called
   created |-> "",         \* ID of the server the remote created for this call
   failedID |-> "",        \* srv.ID in the error of the loop of DeleteServer
   resolved |-> {},        \* servers the scoped lookups of this call returned
   again |-> FALSE,        \* DeleteServer: the worker's previous call was a
                           \* DeleteServer of the same identifier that returned nil
   cancelAt |-> -1,        \* the length of the log when the context of the
                           \* call was cancelled, -1 while it is not
   data |-> << >>,         \* NewMachineSpec: the bootstrap data
   cfg |-> << >>,          \* NewMachineSpec: the configuration
   spec |-> [nil |-> TRUE],\* the machineSpec built or validated
   diag |-> {},            \* the fields the text of err names
   extra |-> << >>,        \* extraSpecsFromBootstrapData: the extraSpecs
   provider |-> FALSE,     \* the call is a CreateInstance of the provider
   steps |-> << >>,        \* CreateInstance: its catalogue requests, in order
   image |-> [nil |-> TRUE],\* CreateInstance: the image resolved
   opts |-> << >>,         \* CreateInstance: the server create options
   flavor |-> [nil |-> TRUE],\* CreateInstance: the flavor resolved
   blockDevice |-> << >>,  \* CreateInstance: the root disk of a create by volume
   server |-> << >>,       \* openstackServerToInstance: srv
   instance |-> << >>,     \* openstackServerToInstance: the result
   instances |-> << >>,    \* ListInstances: the instances returned
   log |-> << >>]          \* the remote requests of this call, in order

Event(req, id, res, at) ==
  [req |-> req, id |-> id, res |-> res, at |-> at, filter |-> << >>]

\* How a point lookup's answer reads in the log.
GetRes(reply) ==
  IF reply.err = NoErr THEN reply.srvs[1].Status
  ELSE IF IsErrDefault404(reply.err) THEN "404" ELSE "error"

\* The log entry of a point lookup or a listing for id, answered by reply.
ReplyEvent(reply, id, at) ==
  [req |-> reply.req, id |-> id,
   res |-> IF reply.req = "Get" THEN GetRes(reply)
           ELSE IF reply.err = NoErr THEN "ok" ELSE "error",
   at |-> at, filter |-> reply.filter]

Identifiers == UUIDs \cup CallNames

Free(w) == call[w].pc = "idle"

Step(w, c) == call' = [call EXCEPT ![w] = c]

\* ------------------------------------------------------------ environment
\* A server that is building becomes active or fails.
RemoteProgress(i) ==
  /\ i \in 1..Len(remote)
  /\ remote[i].Status = "BUILD"
  /\ ~remote[i].doomed
  /\ \E st \in {"ACTIVE", "ERROR"} :
       remote' = [remote EXCEPT ![i].Status = st]
  /\ UNCHANGED <<nextID, call>>

\* Somebody else (an operator, another controller) deletes a server.
ExternalDelete(i) ==
  /\ i \in 1..Len(remote)
  /\ ~remote[i].doomed
  /\ remote[i].Status # "DELETED"
  /\ remote' = [remote EXCEPT ![i].doomed = TRUE]
  /\ UNCHANGED <<nextID, call>>

\* The remote carries out an accepted delete: the server disappears, or
\* stays visible with status DELETED.
RemoteReap(i) ==
  /\ i \in 1..Len(remote)
  /\ remote[i].doomed
  /\ \/ remote' = SelectSeqBy(remote, [j \in 1..Len(remote) |-> j # i])
     \/ remote' = [remote EXCEPT ![i].Status = "DELETED", ![i].doomed = FALSE]
  /\ UNCHANGED <<nextID, call>>

\* The context handed to CreateInstance is cancelled (a signal reaches the
\* process, main.go 25) while the create waits for ACTIVE.  The context is
\* not passed on to the client (provider.go 172, 181), so nothing of the
\* call changes but the record of the moment.
Cancel(w) ==
  LET c == call[w] IN
  /\ c.pc = "wait"
  /\ c.waitStatus = "ACTIVE"
  /\ c.cancelAt = -1
  /\ Step(w, [c EXCEPT !.cancelAt = Len(c.log)])
  /\ UNCHANGED <<remote, nextID>>

\* --------------------------------------------------- client: DeleteServer
\* What the views of a lookup's results add to the record of a call.
Resolved(c, results) ==
  c.resolved \cup {results[i] : i \in 1..Len(results)}

\* A deferred function that lets the error of the rollback replace the
\* error of the create.
DeleteReturn_Propagate(c, e) ==
  IF c.op \in {"CreateServerFromImage", "CreateServerFromVolume"}
    THEN [c EXCEPT !.pc = "done", !.delErr = e,
                   !.err = IF e # NoErr THEN e ELSE c.err]
    ELSE [c EXCEPT !.pc = "done", !.err = e]

\* DeleteServer returns e.  Called by the deferred function of a create,
\* its error is dropped (client.go 93-95).
DeleteReturn(c, e) ==
  IF c.op \in {"CreateServerFromImage", "CreateServerFromVolume"}
    THEN [c EXCEPT !.pc = "done", !.delErr = e]
    ELSE [c EXCEPT !.pc = "done", !.err = e]

\* What DeleteInstance of the provider returns for DeleteServer(instance,
\* true) returning e.
DeleteInstance(e) ==
  IF e # NoErr THEN Wrap("failed to delete server", e) ELSE NoErr

\* The loop of DeleteServer over the matches left (client.go 279-288).
DeleteLoop(c) ==
  IF c.results = << >> THEN DeleteReturn(c, NoErr)
  ELSE [c EXCEPT !.pc = "del_force"]

\* The loop of DeleteServer ending after the first match it deleted.
DeleteServerAfter_FirstOnly(c, e) ==
  IF e = NoErr \/ IsErrDefault404(Unwrap(e))
    THEN DeleteReturn(c, NoErr)
    ELSE DeleteReturn([c EXCEPT !.failedID = Head(c.results).ID],
                      Wrap("failed to delete server with ID", e))

\* The loop of DeleteServer going on to the next match after a failure.
DeleteServerAfter_SkipFailed(c, e) ==
  DeleteLoop([c EXCEPT !.results = Tail(c.results)])

\* deleteServerByID returned e for the first match left: a 404 below its
\* first layer is skipped, any other error ends DeleteServer.  The error
\* names srv.ID of the iteration (client.go 286).
DeleteServerAfter(c, e) ==
  IF e = NoErr \/ IsErrDefault404(Unwrap(e))
    THEN DeleteLoop([c EXCEPT !.results = Tail(c.results)])
    ELSE DeleteReturn([c EXCEPT !.failedID = Head(c.results).ID],
                      Wrap("failed to delete server with ID", e))

\* The deferred function of CreateServerFromImage / CreateServerFromVolume,
\* run when the function returns with the named results c.srv and c.err.
CreateReturn(c) ==
  IF c.err # NoErr
    THEN [c EXCEPT !.pc = "del_resolve", !.rollback = TRUE,
                   !.origErr = c.err, !.waitForDelete = TRUE,
                   !.target = IF c.srv.ID # "" THEN c.srv.ID ELSE c.name]
    ELSE [c EXCEPT !.pc = "done"]

\* DeleteServer returning every error of its lookup, a 404 included.
DeleteServerLookup_No404(c, r) ==
  IF r.err # NoErr
    THEN DeleteReturn(c, Wrap("failed to find server", r.err))
    ELSE DeleteLoop(c)

\* DeleteServer after its lookup returned r (client.go 271-279): a 404 below
\* the first layer of the error is success, any other error is returned.
DeleteServerLookup(c, r) ==
  IF r.err # NoErr
    THEN IF IsErrDefault404(Unwrap(r.err))
           THEN DeleteReturn(c, NoErr)
           ELSE DeleteReturn(c, Wrap("failed to find server", r.err))
    ELSE DeleteLoop(c)

\* servers.ForceDelete: accepted for a server that exists, 404 otherwise
\* (with or without the status code on the result), or a failure.
ForceDeleteReplies(id) ==
  (IF Present(id)
     THEN {[StatusCode |-> 202, err |-> NoErr]}
     ELSE {[StatusCode |-> 404, err |-> ErrDefault404],
           [StatusCode |-> 0, err |-> ErrDefault404]})
  \cup {[StatusCode |-> 0, err |-> ErrRemote]}

\* deleteServerByID going on to its wait whatever the force delete answered.
deleteServerByID_IgnoreErr(reply, waitForDelete) ==
  [wait |-> waitForDelete, err |-> NoErr]

\* deleteServerByID up to its wait, given the answer of the force delete:
\* "wait" when it goes on to waitForStatus, else the error it returns.
deleteServerByID(reply, waitForDelete) ==
  IF reply.StatusCode = 404 THEN [wait |-> FALSE, err |-> NoErr]
  ELSE IF reply.err # NoErr THEN [wait |-> FALSE, err |-> reply.err]
  ELSE [wait |-> waitForDelete, err |-> NoErr]

\* DeleteServer(nameOrID, waitForDelete) of the client.
DeleteServer(w, nameOrID, waitForDelete) ==
  /\ Free(w)
  /\ nameOrID \in UUIDs \cup Names
  /\ waitForDelete \in BOOLEAN
  /\ Step(w, [IdleCall EXCEPT !.op = "DeleteServer", !.pc = "del_resolve",
                              !.nameOrID = nameOrID, !.target = nameOrID,
                              !.waitForDelete = waitForDelete,
                              !.again = (call[w].nameOrID = nameOrID)])
  /\ UNCHANGED <<remote, nextID>>

\* DeleteServer: the scoped lookup (client.go 271-278).
DeleteResolve(w) ==
  LET c == call[w] IN
  /\ c.pc = "del_resolve"
  /\ \E reply \in ResolveReplies(c.target) :
       LET r == ListServersWithNameOrID(c.target, reply)
           ev == ReplyEvent(reply, c.target, "resolve")
           c1 == [c EXCEPT !.log = Append(c.log, ev),
                           !.resolved = Resolved(c, r.results),
                           !.results = r.results]
       IN Step(w, DeleteServerLookup(c1, r))
  /\ UNCHANGED <<remote, nextID>>

\* DeleteServer: deleteServerByID(srv.ID, true) for the first match left, up
\* to its wait (client.go 280, 248-257).
DeleteForce(w) ==
  LET c == call[w]
      id == Head(c.results).ID
  IN
  /\ c.pc = "del_force"
  /\ \E reply \in ForceDeleteReplies(id) :
       LET d == deleteServerByID(reply, TRUE)
           c1 == [c EXCEPT !.log = Append(c.log,
                     Event("ForceDelete", id,
                           IF reply.err = NoErr THEN "ok"
                           ELSE IF IsErrDefault404(reply.err) THEN "404"
                           ELSE "error", "delete"))]
       IN
       /\ remote' = IF reply.err = NoErr
                      THEN [i \in 1..Len(remote) |->
                              IF remote[i].ID = id
                                THEN [remote[i] EXCEPT !.doomed = TRUE]
                                ELSE remote[i]]
                      ELSE remote
       /\ Step(w, IF d.wait
                    THEN [c1 EXCEPT !.pc = "wait", !.waitID = id,
                                    !.waitStatus = "DELETED", !.elapsed = 0]
                    ELSE DeleteServerAfter(c1, d.err))
  /\ UNCHANGED nextID

\* --------------------------------------------------- client: waitForStatus
\* waitForStatus returned werr to the code that called it: a create goes on
\* to its re-fetch or returns the wrapped error, deleteServerByID returns
\* the wrapped error or nil to the loop of DeleteServer.
WaitReturn(c, werr) ==
  IF c.waitStatus = "ACTIVE"
    THEN IF werr # NoErr
           THEN CreateReturn([c EXCEPT !.err =
                  Wrap("server did not reach ACTIVE state after 120 seconds", werr)])
           ELSE [c EXCEPT !.pc = "refetch"]
    ELSE DeleteServerAfter(c, IF werr # NoErr
                                THEN Wrap("failed to delete server", werr)
                                ELSE NoErr)

\* The wait without its deadline: it polls until the predicate is satisfied
\* or returns an error.
waitForStatus_NoDeadline(w) ==
  LET c == call[w] IN
  /\ c.pc = "wait"
  /\ \E reply \in GetReplies(c.waitID) :
       LET p == WaitPredicate(c.waitStatus, reply)
           c1 == [c EXCEPT !.elapsed = IF c.elapsed < PollSecs
                                         THEN c.elapsed + 1 ELSE c.elapsed,
                           !.log = IF c.elapsed < PollSecs
                                     THEN Append(c.log,
                                            ReplyEvent(reply, c.waitID,
                                              IF c.waitStatus = "ACTIVE" THEN "waitACTIVE"
                                              ELSE "waitDELETED"))
                                     ELSE c.log]
       IN Step(w, IF p.err # NoErr THEN WaitReturn(c1, p.err)
                  ELSE IF p.ok THEN WaitReturn(c1, NoErr)
                  ELSE c1)
  /\ UNCHANGED <<remote, nextID>>

\* One iteration of gophercloud.WaitFor around the predicate of
\* waitForStatus: the deadline check, one second of sleep, one point lookup.
waitForStatus(w) ==
  LET c == call[w] IN
  /\ c.pc = "wait"
  /\ IF c.elapsed >= PollSecs
       THEN /\ Step(w, WaitReturn(c, <<"A timeout occurred">>))
       ELSE \E reply \in GetReplies(c.waitID) :
              LET p == WaitPredicate(c.waitStatus, reply)
                  c1 == [c EXCEPT !.elapsed = c.elapsed + 1,
                                  !.log = Append(c.log,
                                     ReplyEvent(reply, c.waitID,
                                           IF c.waitStatus = "ACTIVE" THEN "waitACTIVE"
                                           ELSE "waitDELETED"))]
              IN Step(w, IF p.err # NoErr THEN WaitReturn(c1, p.err)
                         ELSE IF p.ok THEN WaitReturn(c1, NoErr)
                         ELSE c1)
  /\ UNCHANGED <<remote, nextID>>

\* ----------------------------------------------------- client: the creates
BeginCreate(w, op, name, poolID) ==
  /\ Free(w)
  /\ name \in Names
  /\ poolID \in PoolIDs
  /\ Step(w, [IdleCall EXCEPT !.op = op, !.pc = "submit", !.name = name,
                              !.tags = getTags(controllerID, poolID)])
  /\ UNCHANGED <<remote, nextID>>

CreateServerFromImage(w, name, poolID) ==
  BeginCreate(w, "CreateServerFromImage", name, poolID)

CreateServerFromVolume(w, name, poolID) ==
  BeginCreate(w, "CreateServerFromVolume", name, poolID)

\* The server the remote builds for a create request.
NewServer(id, name, tags) ==
  [ID |-> id, Name |-> name, Status |-> "BUILD", Tags |-> tags,
   doomed |-> FALSE]

\* servers.Create / bootfromvolume.Create (client.go 100-102, 123-125): the
\* remote accepts and answers with the new ID, accepts but the answer is
\* lost, or refuses.
CreateSubmit(w) ==
  LET c == call[w]
      id == IF nextID < Len(UUIDPool) THEN UUIDPool[nextID + 1] ELSE ""
      failed(res, made) ==
        CreateReturn([c EXCEPT !.err = Wrap("failed to create server", ErrRemote),
                               !.created = made,
                               !.log = Append(c.log, Event("Create", made, res, "submit"))])
  IN
  /\ c.pc = "submit"
  /\ \/ /\ nextID < Len(UUIDPool)
        /\ remote' = Append(remote, NewServer(id, c.name, c.tags))
        /\ nextID' = nextID + 1
        /\ \/ Step(w, [c EXCEPT !.pc = "wait", !.srv = [NoServer EXCEPT !.ID = id],
                                !.created = id, !.waitID = id,
                                !.waitStatus = "ACTIVE", !.elapsed = 0,
                                !.log = Append(c.log, Event("Create", id, "ok", "submit"))])
           \/ Step(w, failed("lost", id))
     \/ /\ Step(w, failed("error", ""))
        /\ UNCHANGED <<remote, nextID>>

\* return o.GetServer(srv.ID) (client.go 108, 131): both named results are
\* assigned from GetServer.
CreateRefetch(w) ==
  LET c == call[w] IN
  /\ c.pc = "refetch"
  /\ \E reply \in ResolveReplies(c.srv.ID) :
       LET g == GetServer(c.srv.ID, reply) IN
       Step(w, CreateReturn(
                 [c EXCEPT !.srv = g.srv, !.err = g.err,
                           !.resolved = Resolved(c,
                              ListServersWithNameOrID(c.srv.ID, reply).results),
                           !.log = Append(c.log,
                              ReplyEvent(reply, c.srv.ID, "refetch"))]))
  /\ UNCHANGED <<remote, nextID>>

\* ------------------------------------- provider: servers to instances
\* statusMap and addrTypeMap of provider/provider.go.
statusMap ==
  [ACTIVE |-> "running", SHUTOFF |-> "stopped", BUILD |-> "pending_create",
   ERROR |-> "error", DELETING |-> "pending_delete"]

addrTypeMap == [fixed |-> "private", floating |-> "public"]

\* statusMap[srv.Status]: the zero value for a key the map does not hold.
StatusOf_Passthrough(status) ==
  IF status \in DOMAIN statusMap THEN statusMap[status] ELSE status

StatusOf(status) ==
  IF status \in DOMAIN statusMap THEN statusMap[status] ELSE ""

\* The inner loop of openstackServerToInstance: the entries of one network
\* that are maps with a string "addr" and an "OS-EXT-IPS:type" of fixed or
\* floating, converted; every other entry is skipped.
Qualifies_AnyType(e) ==
  /\ e.shape = "map"
  /\ e.addr.t = "string"
  /\ e.type.t = "string"

Qualifies(e) ==
  /\ e.shape = "map"
  /\ e.addr.t # "absent" /\ e.type.t # "absent"
  /\ e.addr.t = "string"
  /\ e.type.t = "string"
  /\ e.type.v[1] \in {"fixed", "floating"}

RECURSIVE AddressesOf(_)
AddressesOf(entries) ==
  IF entries = << >> THEN << >>
  ELSE LET e == Head(entries)
       IN (IF Qualifies(e)
             THEN <<[Address |-> e.addr.v[1],
                     Type |-> IF e.type.v[1] \in DOMAIN addrTypeMap
                                THEN addrTypeMap[e.type.v[1]] ELSE ""]>>
           ELSE << >>) \o AddressesOf(Tail(entries))

\* The outer loop: the networks of srv.Addresses in the order the runtime
\* iterates the map; a value that is not a list is skipped.
RECURSIVE NetworkAddresses(_, _)
NetworkAddresses(addresses, order) ==
  IF order = << >> THEN << >>
  ELSE (IF addresses[Head(order)].list
          THEN AddressesOf(addresses[Head(order)].entries)
        ELSE << >>) \o NetworkAddresses(addresses, Tail(order))

\* srv.Metadata[key]: the zero value for a key the map does not hold.
MetadataOf(srv, key) ==
  IF key \in DOMAIN srv.Metadata THEN srv.Metadata[key] ELSE ""

\* openstackServerToInstance of provider/provider.go.
openstackServerToInstance(srv, order) ==
  [ProviderID |-> srv.ID,
   Name |-> srv.Name,
   OSArch |-> MetadataOf(srv, "os_arch"),
   OSType |-> MetadataOf(srv, "os_type"),
   Status |-> StatusOf(srv.Status),
   OSName |-> MetadataOf(srv, "os_name"),
   OSVersion |-> MetadataOf(srv, "os_version"),
   Addresses |-> NetworkAddresses(srv.Addresses, order)]

\* ------------------------------------------- get, list, start and stop
LookupEvent(nameOrId, reply) == ReplyEvent(reply, nameOrId, "resolve")

\* GetInstance of the provider: GetServer, its error wrapped.
GetInstance(w, instance) ==
  /\ Free(w)
  /\ instance \in UUIDs \cup Names
  /\ \E reply \in ResolveReplies(instance) :
       LET g == GetServer(instance, reply) IN
       Step(w, [IdleCall EXCEPT
                  !.op = "GetInstance", !.pc = "done", !.nameOrID = instance,
                  !.srv = g.srv,
                  !.err = IF g.err # NoErr THEN Wrap("failed to get server", g.err)
                          ELSE NoErr,
                  !.resolved = Resolved(IdleCall,
                                 ListServersWithNameOrID(instance, reply).results),
                  !.log = <<LookupEvent(instance, reply)>>])
  /\ UNCHANGED <<remote, nextID>>

\* The filter of ListServers reduced to the controller tag.
ListServersTags_ControllerOnly(poolID) ==
  <<Tag(controllerIDTagName, controllerID)>>

\* The tags ListServers(poolID) filters on (client.go 216-219).
ListServersTags(poolID) ==
  <<Tag(poolIDTagName, poolID), Tag(controllerIDTagName, controllerID)>>

\* ListServers(poolID) of the client, as ListInstances calls it, given the
\* answer of its listing.
ListServers(poolID, reply) ==
  IF reply.err # NoErr
    THEN [results |-> << >>, err |-> Wrap("failed to list servers", reply.err)]
    ELSE [results |-> reply.srvs, err |-> NoErr]

\* A listed server as openstackServerToInstance reads it: the listing of the
\* model carries neither metadata nor addresses.
Listed(srv) ==
  [ID |-> srv.ID, Name |-> srv.Name, Status |-> srv.Status,
   Metadata |-> [k \in {} |-> ""], Addresses |-> [n \in {} |-> << >>]]

\* The loop filling the result from its end.
Instances_Reversed(servers) ==
  [idx \in 1..Len(servers) |->
     openstackServerToInstance(Listed(servers[Len(servers) + 1 - idx]), << >>)]

\* The loop of ListInstances (provider.go 210-214): ret[idx] is the
\* conversion of the idx-th server of the listing.
Instances(servers) ==
  [idx \in 1..Len(servers) |->
     openstackServerToInstance(Listed(servers[idx]), << >>)]

\* ListInstances of the provider (provider.go 204-216): a failed listing
\* returns no instance.
ListInstances(w, poolID) ==
  /\ Free(w)
  /\ poolID \in PoolIDs
  /\ \E reply \in ListReplies(ListServersTags(poolID)) :
       LET l == ListServers(poolID, reply) IN
       Step(w, [IdleCall EXCEPT
                  !.op = "ListInstances", !.pc = "done", !.nameOrID = poolID,
                  !.results = l.results,
                  !.instances = IF l.err # NoErr THEN << >>
                                ELSE Instances(l.results),
                  !.err = IF l.err # NoErr THEN Wrap("failed to list servers", l.err)
                          ELSE NoErr,
                  !.log = <<ReplyEvent(reply, poolID, "list")>>])
  /\ UNCHANGED <<remote, nextID>>

\* RemoveAllInstances removing the servers of the client.
RemoveAllInstances_DeleteOwn(w) ==
  /\ Free(w)
  /\ Step(w, [IdleCall EXCEPT !.op = "RemoveAllInstances", !.pc = "done"])
  /\ remote' = SelectSeqBy(remote,
                  [i \in 1..Len(remote) |->
                     Tag(controllerIDTagName, controllerID)
                       \notin TagSet(remote[i].Tags)])
  /\ UNCHANGED nextID

\* RemoveAllInstances of the provider (provider.go 218-221): return nil.
RemoveAllInstances(w) ==
  /\ Free(w)
  /\ Step(w, [IdleCall EXCEPT !.op = "RemoveAllInstances", !.pc = "done",
                             !.err = NoErr, !.log = << >>])
  /\ UNCHANGED <<remote, nextID>>

\* StopServer / StartServer going on after a lookup that failed.
StartStopLookup_IgnoreErr(c, g, idleStatus) ==
  IF g.srv.Status = idleStatus
    THEN [c EXCEPT !.pc = "done"]
    ELSE [c EXCEPT !.pc = "act"]

\* StopServer / StartServer after GetServer returned g (client.go 404-411,
\* 421-428): the error of the lookup is returned, a server already in the
\* status asked for needs no request.
StartStopLookup(c, g, idleStatus) ==
  IF g.err # NoErr
    THEN [c EXCEPT !.pc = "done", !.err = Wrap("failed to get server", g.err)]
  ELSE IF g.srv.Status = idleStatus
    THEN [c EXCEPT !.pc = "done"]
  ELSE [c EXCEPT !.pc = "act"]

\* StopServer / StartServer up to the action request: the lookup and the
\* check of the status that needs no request (client.go 404-411, 421-428).
BeginStartStop(w, op, nameOrID, idleStatus) ==
  /\ Free(w)
  /\ nameOrID \in UUIDs \cup Names
  /\ \E reply \in ResolveReplies(nameOrID) :
       LET g == GetServer(nameOrID, reply)
           c == [IdleCall EXCEPT
                   !.op = op, !.nameOrID = nameOrID, !.srv = g.srv,
                   !.resolved = Resolved(IdleCall,
                                  ListServersWithNameOrID(nameOrID, reply).results),
                   !.log = <<LookupEvent(nameOrID, reply)>>]
       IN Step(w, StartStopLookup(c, g, idleStatus))
  /\ UNCHANGED <<remote, nextID>>

\* StopServer taking an active server for one that needs no request.
StopServer_WrongStatus(w, nameOrID) ==
  BeginStartStop(w, "StopServer", nameOrID, "ACTIVE")

StopServer(w, nameOrID) == BeginStartStop(w, "StopServer", nameOrID, "SHUTOFF")

StartServer(w, nameOrID) == BeginStartStop(w, "StartServer", nameOrID, "ACTIVE")

\* startstop.Stop / startstop.Start for the resolved server (client.go
\* 413-417, 430-434).
StartStopAct(w) ==
  LET c == call[w]
      id == c.srv.ID
      req == IF c.op = "StopServer" THEN "Stop" ELSE "Start"
      to == IF c.op = "StopServer" THEN "SHUTOFF" ELSE "ACTIVE"
  IN
  /\ c.pc = "act"
  /\ \/ /\ Present(id)
        /\ remote' = [i \in 1..Len(remote) |->
                        IF remote[i].ID = id /\ remote[i].Status # "DELETED"
                          THEN [remote[i] EXCEPT !.Status = to]
                          ELSE remote[i]]
        /\ Step(w, [c EXCEPT !.pc = "done",
                             !.log = Append(c.log, Event(req, id, "ok", "act"))])
     \/ /\ UNCHANGED remote
        /\ Step(w, [c EXCEPT !.pc = "done",
                             !.err = Wrap("failed to stop server",
                                          IF Present(id) THEN ErrRemote
                                          ELSE ErrDefault404),
                             !.log = Append(c.log, Event(req, id, "error", "act"))])
  /\ UNCHANGED nextID

\* The call returns to its caller.  The worker keeps nothing of it; the
\* model remembers the identifier of a DeleteServer that returned nil.
Return(w) ==
  /\ call[w].pc = "done"
  /\ Step(w, [IdleCall EXCEPT !.nameOrID =
                 IF call[w].op = "DeleteServer" /\ call[w].err = NoErr
                   THEN call[w].nameOrID ELSE ""])
  /\ UNCHANGED <<remote, nextID>>

\* ------------------------------------------------------ the build spec
\* defaultBootDiskSize of provider/spec.go.
defaultBootDiskSize == 50

\* A pointer or slice field: set is FALSE for nil, v is what it holds.
Nil(zero) == [set |-> FALSE, v |-> zero]
Ptr(v) == [set |-> TRUE, v |-> v]

\* A value of an extra_specs document: its JSON type and its content, a scalar
\* as the one-element sequence of its text, an array as its elements.
JSON(t, v) == [t |-> t, v |-> v]
Absent == JSON("absent", << >>)
JBool(b) == JSON("boolean", <<IF b THEN "true" ELSE "false">>)
JInt(text) == JSON("integer", <<text>>)
JStr(s) == JSON("string", <<s>>)
JArr(elems) == JSON("array", elems)
JObj == JSON("object", << >>)

\* The number a JSON integer of the documents drawn here decodes to.
IntValue(text) ==
  CASE text = "0" -> 0
    [] text = "150" -> 150
    [] OTHER -> -1

\* generateJSONSchema: the properties the reflector derives from extraSpecs and
\* the embedded CloudConfigSpec, each with its JSON type; nothing else is
\* allowed (AllowAdditionalProperties is false).
generateJSONSchema ==
  [security_groups |-> "array", allowed_image_owners |-> "array",
   image_visibility |-> "string", network_id |-> "string",
   storage_backend |-> "string", boot_from_volume |-> "boolean",
   boot_disk_size |-> "integer", use_config_drive |-> "boolean",
   enable_boot_debug |-> "boolean", disable_updates |-> "boolean",
   extra_packages |-> "array", runner_install_template |-> "string",
   pre_install_scripts |-> "object", extra_context |-> "object"]

\* The keys a document drawn here may carry: the declared ones and one that
\* the schema does not declare.
DocKeys == DOMAIN generateJSONSchema \cup {"extra_field"}

\* data.ExtraSpecs: no bytes at all, bytes that are not a JSON document, or
\* an object with the fields given.
NoFields == [k \in DocKeys |-> Absent]
EmptyRaw == [kind |-> "empty", fields |-> NoFields]
InvalidRaw == [kind |-> "invalid", fields |-> NoFields]
Object(fields) == [kind |-> "object", fields |-> fields]
PresentKeys(raw) == {k \in DocKeys : raw.fields[k].t # "absent"}

\* The fields of a document that break the schema.
Offending(schema, raw) ==
  {k \in PresentKeys(raw) :
     k \notin DOMAIN schema \/ raw.fields[k].t # schema[k]}

\* jsonSchemaValidation: nil for a document the schema accepts, otherwise an
\* error whose text names every offending field (diag).
jsonSchemaValidation_AllowAdditional(raw) ==
  IF raw.kind # "object"
    THEN [err |-> <<"failed to validate schema">>, diag |-> {}]
  ELSE LET bad == {k \in Offending(generateJSONSchema, raw) :
                     k \in DOMAIN generateJSONSchema}
       IN IF bad = {} THEN [err |-> NoErr, diag |-> {}]
          ELSE [err |-> <<"schema validation failed">>, diag |-> bad]

jsonSchemaValidation(raw) ==
  IF raw.kind # "object"
    THEN [err |-> <<"failed to validate schema">>, diag |-> {}]
  ELSE LET bad == Offending(generateJSONSchema, raw)
       IN IF bad = {} THEN [err |-> NoErr, diag |-> {}]
          ELSE [err |-> <<"schema validation failed">>, diag |-> bad]

\* The extraSpecs struct with nothing set.
ZeroExtraSpecs ==
  [SecurityGroups |-> Nil(<< >>), AllowedImageOwners |-> Nil(<< >>),
   ImageVisibility |-> "", NetworkID |-> "", StorageBackend |-> "",
   BootFromVolume |-> Nil(FALSE), BootDiskSize |-> Nil(0),
   UseConfigDrive |-> Nil(FALSE), EnableBootDebug |-> Nil(FALSE),
   DisableUpdates |-> Nil(FALSE), ExtraPackages |-> Nil(<< >>)]

\* json.Unmarshal of a document the schema accepted into extraSpecs: a pointer
\* or slice field is non-nil exactly when its key is present, a string field
\* holds the text of its key or stays empty.
Slice(j) == IF j.t = "absent" THEN Nil(<< >>) ELSE Ptr(j.v)
String(j) == IF j.t = "absent" THEN "" ELSE j.v[1]
BoolPtr(j) == IF j.t = "absent" THEN Nil(FALSE) ELSE Ptr(j.v[1] = "true")
IntPtr(j) == IF j.t = "absent" THEN Nil(0) ELSE Ptr(IntValue(j.v[1]))
Unmarshal(f) ==
  [SecurityGroups |-> Slice(f.security_groups),
   AllowedImageOwners |-> Slice(f.allowed_image_owners),
   ImageVisibility |-> String(f.image_visibility),
   NetworkID |-> String(f.network_id),
   StorageBackend |-> String(f.storage_backend),
   BootFromVolume |-> BoolPtr(f.boot_from_volume),
   BootDiskSize |-> IntPtr(f.boot_disk_size),
   UseConfigDrive |-> BoolPtr(f.use_config_drive),
   EnableBootDebug |-> BoolPtr(f.enable_boot_debug),
   DisableUpdates |-> BoolPtr(f.disable_updates),
   ExtraPackages |-> Slice(f.extra_packages)]

\* extraSpecsFromBootstrapData of provider/spec.go.
extraSpecsFromBootstrapData(data) ==
  IF data.ExtraSpecs.kind = "empty"
    THEN [spec |-> ZeroExtraSpecs, err |-> NoErr, diag |-> {}]
  ELSE LET v == jsonSchemaValidation(data.ExtraSpecs)
       IN IF v.err # NoErr
            THEN [spec |-> ZeroExtraSpecs,
                  err |-> Wrap("failed to validate extra specs", v.err),
                  diag |-> v.diag]
          ELSE [spec |-> Unmarshal(data.ExtraSpecs.fields),
                err |-> NoErr, diag |-> {}]

\* getProperties of provider/spec.go.
getProperties(data, ctrlID) ==
  [k \in {"os_arch", "os_type", poolIDTagName, controllerIDTagName} |->
     CASE k = "os_arch" -> data.OSArch
       [] k = "os_type" -> data.OSType
       [] k = poolIDTagName -> data.PoolID
       [] OTHER -> ctrlID]

\* config.IsValidVisibility: the visibilities the image service knows.
ValidVisibilities == {"public", "private", "shared", "community", "all"}
IsValidVisibility(v) == v \in ValidVisibilities

\* machineSpec.MergeExtraSpecs of provider/spec.go: m after the call.
MergeExtraSpecs_NonZeroOnly(m, spec) ==
  [m EXCEPT
     !.StorageBackend = IF spec.StorageBackend # ""
                          THEN spec.StorageBackend ELSE @,
     !.BootDiskSize = IF spec.BootDiskSize.set
                        THEN spec.BootDiskSize.v ELSE @,
     !.BootFromVolume = IF spec.BootFromVolume.set /\ spec.BootFromVolume.v
                          THEN spec.BootFromVolume.v ELSE @,
     !.NetworkID = IF spec.NetworkID # "" THEN spec.NetworkID ELSE @,
     !.SecurityGroups = IF Len(spec.SecurityGroups.v) > 0
                          THEN spec.SecurityGroups.v ELSE @,
     !.UseConfigDrive = IF spec.UseConfigDrive.set
                          THEN spec.UseConfigDrive.v ELSE @,
     !.AllowedImageOwners = IF spec.AllowedImageOwners.set
                              THEN spec.AllowedImageOwners.v ELSE @,
     !.BootstrapParams.UserDataOptions.EnableBootDebug =
        IF spec.EnableBootDebug.set THEN spec.EnableBootDebug.v ELSE @,
     !.DisableUpdates = IF spec.DisableUpdates.set
                          THEN spec.DisableUpdates.v ELSE @,
     !.ImageVisibility = IF IsValidVisibility(spec.ImageVisibility)
                           THEN spec.ImageVisibility ELSE @]

MergeExtraSpecs_PlainVisibility(m, spec) ==
  [m EXCEPT
     !.StorageBackend = IF spec.StorageBackend # ""
                          THEN spec.StorageBackend ELSE @,
     !.BootDiskSize = IF spec.BootDiskSize.set
                        THEN spec.BootDiskSize.v ELSE @,
     !.BootFromVolume = IF spec.BootFromVolume.set
                          THEN spec.BootFromVolume.v ELSE @,
     !.NetworkID = IF spec.NetworkID # "" THEN spec.NetworkID ELSE @,
     !.SecurityGroups = IF Len(spec.SecurityGroups.v) > 0
                          THEN spec.SecurityGroups.v ELSE @,
     !.UseConfigDrive = IF spec.UseConfigDrive.set
                          THEN spec.UseConfigDrive.v ELSE @,
     !.AllowedImageOwners = IF spec.AllowedImageOwners.set
                              THEN spec.AllowedImageOwners.v ELSE @,
     !.BootstrapParams.UserDataOptions.EnableBootDebug =
        IF spec.EnableBootDebug.set THEN spec.EnableBootDebug.v ELSE @,
     !.DisableUpdates = IF spec.DisableUpdates.set
                          THEN spec.DisableUpdates.v ELSE @,
     !.ImageVisibility = IF spec.ImageVisibility # ""
                           THEN spec.ImageVisibility ELSE @]

MergeExtraSpecs(m, spec) ==
  [m EXCEPT
     !.StorageBackend = IF spec.StorageBackend # ""
                          THEN spec.StorageBackend ELSE @,
     !.BootDiskSize = IF spec.BootDiskSize.set
                        THEN spec.BootDiskSize.v ELSE @,
     !.BootFromVolume = IF spec.BootFromVolume.set
                          THEN spec.BootFromVolume.v ELSE @,
     !.NetworkID = IF spec.NetworkID # "" THEN spec.NetworkID ELSE @,
     !.SecurityGroups = IF Len(spec.SecurityGroups.v) > 0
                          THEN spec.SecurityGroups.v ELSE @,
     !.UseConfigDrive = IF spec.UseConfigDrive.set
                          THEN spec.UseConfigDrive.v ELSE @,
     !.AllowedImageOwners = IF spec.AllowedImageOwners.set
                              THEN spec.AllowedImageOwners.v ELSE @,
     !.BootstrapParams.UserDataOptions.EnableBootDebug =
        IF spec.EnableBootDebug.set THEN spec.EnableBootDebug.v ELSE @,
     !.DisableUpdates = IF spec.DisableUpdates.set
                          THEN spec.DisableUpdates.v ELSE @,
     !.ImageVisibility = IF IsValidVisibility(spec.ImageVisibility)
                           THEN spec.ImageVisibility ELSE @]

\* machineSpec.Validate of provider/spec.go: nil, or the first check that
\* fails.
Validate_ImageFirst(m) ==
  IF m.NetworkID = "" THEN <<"missing network ID">>
  ELSE IF m.BootFromVolume /\ m.BootDiskSize = 0
    THEN <<"boot from volume is enabled, and boot disk size is 0">>
  ELSE IF m.Image = "" THEN <<"missing image">>
  ELSE IF m.Flavor = "" THEN <<"missing flavor">>
  ELSE IF Len(m.Tags) = 0
    THEN <<"missing tags; at least the controller ID and pool ID must be set">>
  ELSE IF ~m.Tools.DownloadURL.set THEN <<"missing tools">>
  ELSE IF m.BootstrapParams.Name = "" THEN <<"missing bootstrap params">>
  ELSE NoErr

Validate(m) ==
  IF m.NetworkID = "" THEN <<"missing network ID">>
  ELSE IF m.BootFromVolume /\ m.BootDiskSize = 0
    THEN <<"boot from volume is enabled, and boot disk size is 0">>
  ELSE IF m.Flavor = "" THEN <<"missing flavor">>
  ELSE IF m.Image = "" THEN <<"missing image">>
  ELSE IF Len(m.Tags) = 0
    THEN <<"missing tags; at least the controller ID and pool ID must be set">>
  ELSE IF ~m.Tools.DownloadURL.set THEN <<"missing tools">>
  ELSE IF m.BootstrapParams.Name = "" THEN <<"missing bootstrap params">>
  ELSE NoErr

\* DefaultToolFetch (util.GetTools of the common library): the first tool
\* built for the operating system and architecture of the runner, an error
\* when there is none.
DefaultToolFetch(data) ==
  LET fit == SelectSeq(data.Tools,
               LAMBDA t : t.OS = data.OSType /\ t.Architecture = data.OSArch)
  IN IF fit = << >>
       THEN [tool |-> [OS |-> "", Architecture |-> "", DownloadURL |-> Nil("")],
             err |-> <<"failed to find tools">>]
     ELSE [tool |-> fit[1], err |-> NoErr]

\* No machineSpec: what NewMachineSpec returns beside an error.
NoSpec == [nil |-> TRUE]

\* The machineSpec NewMachineSpec assembles from the configuration defaults
\* and the bootstrap data, before the extra specs are merged.
DefaultSpec(data, cfg, ctrlID, tools) ==
  [nil |-> FALSE,
   StorageBackend |-> cfg.DefaultStorageBackend,
   SecurityGroups |-> cfg.DefaultSecurityGroups,
   AllowedImageOwners |-> cfg.AllowedImageOwners,
   ImageVisibility |-> cfg.ImageVisibility,
   NetworkID |-> cfg.DefaultNetworkID,
   BootFromVolume |-> cfg.BootFromVolume,
   BootDiskSize |-> IF cfg.BootDiskSize.set THEN cfg.BootDiskSize.v
                    ELSE defaultBootDiskSize,
   UseConfigDrive |-> cfg.UseConfigDrive,
   Flavor |-> data.Flavor,
   Image |-> data.Image,
   DisableUpdates |-> FALSE,
   ExtraPackages |-> << >>,
   Tools |-> tools,
   Tags |-> getTags(ctrlID, data.PoolID),
   Properties |-> getProperties(data, ctrlID),
   BootstrapParams |->
     [data EXCEPT
        !.UserDataOptions.DisableUpdatesOnBoot =
           IF cfg.DisableUpdatesOnBoot THEN TRUE ELSE @,
        !.UserDataOptions.EnableBootDebug =
           IF cfg.EnableBootDebug THEN TRUE ELSE @]]

\* NewMachineSpec of provider/spec.go: the spec and the error returned, with
\* the fields the error text names.
NewMachineSpec(data, cfg, ctrlID) ==
  LET t == DefaultToolFetch(data)
      x == extraSpecsFromBootstrapData(data)
      m == MergeExtraSpecs(
             [DefaultSpec(data, cfg, ctrlID, t.tool)
                EXCEPT !.ExtraPackages = x.spec.ExtraPackages.v], x.spec)
  IN IF t.err # NoErr
       THEN [spec |-> NoSpec, err |-> <<"failed to get tools">>, diag |-> {}]
     ELSE IF x.err # NoErr
       THEN [spec |-> NoSpec, err |-> Wrap("failed to get extra specs", x.err),
             diag |-> x.diag]
     ELSE IF Validate(m) # NoErr
       THEN [spec |-> NoSpec, err |-> Wrap("failed to validate spec", Validate(m)),
             diag |-> {}]
     ELSE [spec |-> m, err |-> NoErr, diag |-> {}]

\* ------------------------------------------------- inputs of the build spec
\* The most keys an extra_specs document drawn here carries, and the most
\* entries a network of a server drawn here lists.
MaxDocKeys == 2
MaxAddrs == 2

\* The values a key of a document takes: of the declared type, its zero value
\* included, and of another type.
DocValues(k) ==
  CASE k \in {"security_groups", "allowed_image_owners", "extra_packages"} ->
         {JArr(<< >>), JArr(<<"x2">>), JStr("x2")}
    [] k = "image_visibility" ->
         {JStr(v) : v \in ValidVisibilities \cup {"", "invalid"}} \cup {JInt("0")}
    [] k \in {"network_id", "storage_backend"} ->
         {JStr(""), JStr("x2"), JInt("0")}
    [] k = "runner_install_template" -> {JStr("x2"), JInt("0")}
    [] k = "boot_disk_size" -> {JInt("0"), JInt("150"), JStr("150")}
    [] k \in {"pre_install_scripts", "extra_context"} -> {JObj, JStr("x2")}
    [] k = "extra_field" -> {JStr("x2")}
    [] OTHER -> {JBool(TRUE), JBool(FALSE), JStr("true")}

RECURSIVE DocsWith(_)
DocsWith(n) ==
  IF n = 0 THEN {NoFields}
  ELSE LET less == DocsWith(n - 1)
       IN less \cup
          UNION { {[d[1] EXCEPT ![d[2]] = v] : v \in DocValues(d[2])} :
                    d \in less \X DocKeys }

RawMessages == {EmptyRaw, InvalidRaw} \cup {Object(f) : f \in DocsWith(MaxDocKeys)}

\* Runner tools as the controller sends them: with a download URL, or without.
Tool(url) == [OS |-> "linux", Architecture |-> "amd64", DownloadURL |-> url]

\* Bootstrap data with nothing missing, for a pool and an extra_specs document.
BootstrapInstance(poolID, raw) ==
  [Name |-> "n1", Flavor |-> "f1", Image |-> "img1", PoolID |-> poolID,
   OSType |-> "linux", OSArch |-> "amd64",
   Tools |-> <<Tool(Ptr("http://tools"))>>,
   ExtraSpecs |-> raw,
   UserDataOptions |-> [DisableUpdatesOnBoot |-> FALSE,
                        EnableBootDebug |-> FALSE]]

\* Documents that decide a check of Validate.
VolumeDocs ==
  {EmptyRaw,
   Object([NoFields EXCEPT !.boot_from_volume = JBool(TRUE),
                           !.boot_disk_size = JInt("0")]),
   Object([NoFields EXCEPT !.boot_from_volume = JBool(TRUE),
                           !.boot_disk_size = JInt("150")])}

\* Bootstrap data with any of name, flavor, image and tools missing.
DefectiveData ==
  { [BootstrapInstance("p1", x[5]) EXCEPT
       !.Name = x[1], !.Flavor = x[2], !.Image = x[3], !.Tools = x[4]] :
      x \in {"", "n1"} \X {"", "f1"} \X {"", "img1"}
            \X {<< >>, <<Tool(Nil(""))>>, <<Tool(Ptr("http://tools"))>>}
            \X VolumeDocs }

BootstrapData ==
  {BootstrapInstance(p, raw) : p \in PoolIDs, raw \in RawMessages}
    \cup DefectiveData

\* The provider configuration: every default at its zero value beside the
\* mandatory network, or every default set.
ZeroConfig ==
  [DefaultStorageBackend |-> "", DefaultSecurityGroups |-> << >>,
   DefaultNetworkID |-> "N1", BootFromVolume |-> FALSE,
   BootDiskSize |-> Nil(0), UseConfigDrive |-> FALSE,
   AllowedImageOwners |-> << >>, ImageVisibility |-> "",
   DisableUpdatesOnBoot |-> FALSE, EnableBootDebug |-> FALSE]

FullConfig ==
  [DefaultStorageBackend |-> "x1", DefaultSecurityGroups |-> <<"x1">>,
   DefaultNetworkID |-> "N1", BootFromVolume |-> TRUE,
   BootDiskSize |-> Ptr(100), UseConfigDrive |-> TRUE,
   AllowedImageOwners |-> <<"x1">>, ImageVisibility |-> "shared",
   DisableUpdatesOnBoot |-> TRUE, EnableBootDebug |-> TRUE]

Configs == {ZeroConfig, FullConfig}

\* machineSpec values for Validate alone: the spec of complete bootstrap data
\* with any of the validated fields emptied.
MachineSpecs ==
  { [DefaultSpec(BootstrapInstance("p1", EmptyRaw), ZeroConfig, controllerID,
                 Tool(x[6])) EXCEPT
       !.NetworkID = x[1], !.BootFromVolume = x[2][1], !.BootDiskSize = x[2][2],
       !.Flavor = x[3], !.Image = x[4], !.Tags = x[5],
       !.BootstrapParams.Name = x[7]] :
      x \in {"", "N1"} \X {<<FALSE, 0>>, <<TRUE, 0>>, <<TRUE, 50>>}
            \X {"", "f1"} \X {"", "img1"}
            \X {<< >>, getTags(controllerID, "p1")}
            \X {Nil(""), Ptr("http://tools")} \X {"", "n1"} }

\* The entries of a network of srv.Addresses: a map with "addr" and
\* "OS-EXT-IPS:type" of any kind or missing, or something that is no map.
AddrEntries ==
  { [shape |-> "map", addr |-> a, type |-> t] :
      a \in {JStr("10.0.0.1"), JStr("172.24.4.9"), JInt("0"), Absent},
      t \in {JStr("fixed"), JStr("floating"), JStr("other"), JInt("0"), Absent} }
    \cup {[shape |-> "other", addr |-> Absent, type |-> Absent]}

RECURSIVE EntryLists(_)
EntryLists(n) ==
  IF n = 0 THEN {<< >>}
  ELSE LET less == EntryLists(n - 1)
       IN less \cup {Append(l, e) : l \in less, e \in AddrEntries}

NetworkValue(entries) == [list |-> TRUE, entries |-> entries]
NotAList == [list |-> FALSE, entries |-> << >>]

\* srv.Addresses: no network, one network with up to MaxAddrs entries or a
\* value that is no list, or two networks with up to one entry each.
AddressMaps ==
  {[n \in {} |-> NotAList]}
    \cup {[n \in {"net1"} |-> v] :
            v \in {NetworkValue(l) : l \in EntryLists(MaxAddrs)} \cup {NotAList}}
    \cup {[n \in {"net1", "net2"} |-> IF n = "net1" THEN v[1] ELSE v[2]] :
            v \in ({NetworkValue(l) : l \in EntryLists(1)} \cup {NotAList})
                  \X {NetworkValue(l) : l \in EntryLists(1)}}

\* The orders in which the runtime may iterate a map with these keys.
Orders(keys) ==
  IF keys = {} THEN {<< >>}
  ELSE IF keys = {"net1"} THEN {<<"net1">>}
  ELSE {<<"net1", "net2">>, <<"net2", "net1">>}

ServerStatuses ==
  {"ACTIVE", "SHUTOFF", "BUILD", "ERROR", "DELETING", "DELETED", "PAUSED",
   "UNKNOWN", ""}

\* Servers as the compute service returns them.
ServerWithExt(status, addresses) ==
  [ID |-> UUIDPool[1], Name |-> "n1", Status |-> status,
   Metadata |-> [k \in {"os_arch", "os_type"} |->
                   IF k = "os_arch" THEN "amd64" ELSE "linux"],
   Addresses |-> addresses]

Servers ==
  {ServerWithExt("ACTIVE", a) : a \in AddressMaps}
    \cup {ServerWithExt(s, [n \in {"net1"} |-> NetworkValue(l)]) :
            s \in ServerStatuses, l \in EntryLists(1)}
    \cup {ServerWithExt(s, [n \in {} |-> NotAList]) : s \in ServerStatuses}

\* ------------------------------------------------ actions of the build spec
\* NewMachineSpec applied to bootstrap data under a configuration.
ApplyNewMachineSpec(w, data, cfg) ==
  /\ Free(w)
  /\ LET r == NewMachineSpec(data, cfg, controllerID)
     IN Step(w, [IdleCall EXCEPT !.op = "NewMachineSpec", !.pc = "done",
                   !.data = data, !.cfg = cfg, !.spec = r.spec,
                   !.err = r.err, !.diag = r.diag])
  /\ UNCHANGED <<remote, nextID>>

\* extraSpecsFromBootstrapData applied to bootstrap data.
ApplyExtraSpecs(w, data) ==
  /\ Free(w)
  /\ LET r == extraSpecsFromBootstrapData(data)
     IN Step(w, [IdleCall EXCEPT !.op = "extraSpecsFromBootstrapData",
                   !.pc = "done", !.data = data, !.extra = r.spec,
                   !.err = r.err, !.diag = r.diag])
  /\ UNCHANGED <<remote, nextID>>

\* Validate applied to a machineSpec.
ApplyValidate(w, m) ==
  /\ Free(w)
  /\ Step(w, [IdleCall EXCEPT !.op = "Validate", !.pc = "done",
                !.spec = m, !.err = Validate(m)])
  /\ UNCHANGED <<remote, nextID>>

\* openstackServerToInstance applied to a server.
ApplyServerToInstance(w, srv, order) ==
  /\ Free(w)
  /\ order \in Orders(DOMAIN srv.Addresses)
  /\ Step(w, [IdleCall EXCEPT !.op = "openstackServerToInstance",
                !.pc = "done", !.server = srv,
                !.instance = openstackServerToInstance(srv, order)])
  /\ UNCHANGED <<remote, nextID>>

\* ------------------------------------------------ provider: CreateInstance
\* An image of the image service: its ID, its owner and the properties
\* os_distro and os_version, each missing, a string or something else.
Image(owner, distro, version) ==
  [ID |-> "img1", Owner |-> owner,
   Properties |-> [os_distro |-> distro, os_version |-> version]]

Images ==
  { Image(o, p[1], p[2]) :
      o \in {"x1", "x2"},
      p \in {<<Absent, Absent>>, <<JStr("ubuntu"), JStr("22.04")>>} }
    \cup {Image("x1", JInt("0"), JStr("22.04"))}

\* m.Properties[key] = val
SetProperty(props, key, val) ==
  [k \in DOMAIN props \cup {key} |-> IF k = key THEN val ELSE props[k]]

\* machineSpec.SetSpecFromImage of provider/spec.go: m after the call.
SetSpecFromImage_Replace(m, img) ==
  LET named == IF img.Properties.os_distro.t = "string"
                 THEN [k \in {"os_name"} |-> img.Properties.os_distro.v[1]]
               ELSE [k \in {} |-> ""]
  IN [m EXCEPT !.Properties =
        IF img.Properties.os_version.t = "string"
          THEN SetProperty(named, "os_version", img.Properties.os_version.v[1])
        ELSE named]

SetSpecFromImage(m, img) ==
  LET named == IF img.Properties.os_distro.t = "string"
                 THEN SetProperty(m.Properties, "os_name",
                                  img.Properties.os_distro.v[1])
               ELSE m.Properties
  IN [m EXCEPT !.Properties =
        IF img.Properties.os_version.t = "string"
          THEN SetProperty(named, "os_version", img.Properties.os_version.v[1])
        ELSE named]

\* The owner check of CreateInstance (provider.go 147-159): the image may be
\* used.
OwnerAllowed(m, img) ==
  \/ Len(m.AllowedImageOwners) = 0
  \/ \E i \in 1..Len(m.AllowedImageOwners) : m.AllowedImageOwners[i] = img.Owner

\* machineSpec.ComposeUserData of provider/spec.go: what the cloud config is
\* generated from.
ComposeUserData(m) ==
  IF m.BootstrapParams.OSType \in {"linux", "windows"}
    THEN [udata |-> [Name |-> m.BootstrapParams.Name,
                     DisableUpdatesOnBoot |-> m.DisableUpdates,
                     ExtraPackages |-> m.ExtraPackages,
                     EnableBootDebug |->
                       m.BootstrapParams.UserDataOptions.EnableBootDebug],
          err |-> NoErr]
  ELSE [udata |-> << >>, err |-> <<"unsupported OS type for cloud config">>]

\* No create options: what GetServerCreateOpts returns beside an error.
NoCreateOpts == [Name |-> "", Tags |-> << >>]

\* machineSpec.GetServerCreateOpts of provider/spec.go.
GetServerCreateOpts_NoTags(m, flavor, img) ==
  LET u == ComposeUserData(m) IN
  IF u.err # NoErr
    THEN [opts |-> NoCreateOpts, err |-> Wrap("failed to get user data", u.err)]
  ELSE [opts |-> [Name |-> m.BootstrapParams.Name, ImageRef |-> img.ID,
                  FlavorRef |-> flavor.ID, SecurityGroups |-> m.SecurityGroups,
                  Networks |-> <<m.NetworkID>>, Metadata |-> m.Properties,
                  ConfigDrive |-> m.UseConfigDrive, Tags |-> << >>,
                  UserData |-> u.udata],
        err |-> NoErr]

GetServerCreateOpts(m, flavor, img) ==
  LET u == ComposeUserData(m) IN
  IF u.err # NoErr
    THEN [opts |-> NoCreateOpts, err |-> Wrap("failed to get user data", u.err)]
  ELSE [opts |-> [Name |-> m.BootstrapParams.Name, ImageRef |-> img.ID,
                  FlavorRef |-> flavor.ID, SecurityGroups |-> m.SecurityGroups,
                  Networks |-> <<m.NetworkID>>, Metadata |-> m.Properties,
                  ConfigDrive |-> m.UseConfigDrive, Tags |-> m.Tags,
                  UserData |-> u.udata],
        err |-> NoErr]

\* machineSpec.GetBootFromVolumeOpts of provider/spec.go: the root disk of
\* the create by volume.
GetBootFromVolumeOpts(m, srvOpts) ==
  [UUID |-> srvOpts.ImageRef, VolumeSize |-> m.BootDiskSize,
   VolumeType |-> m.StorageBackend]

\* A flavor of the compute service: its ID and the size of its root disk in
\* GB, 0 when it defines none.
Flavor(disk) == [ID |-> "f1", Disk |-> disk]

Flavors == {Flavor(0), Flavor(20)}

\* A catalogue request of CreateInstance and how it ended.
Lookup(req, res) == [req |-> req, res |-> res]

\* CreateInstance of the provider, up to its first request: NewMachineSpec,
\* its error wrapped.
CreateInstance(w, data, cfg) ==
  /\ Free(w)
  /\ LET r == NewMachineSpec(data, cfg, controllerID)
         c == [IdleCall EXCEPT !.op = "CreateInstance", !.provider = TRUE,
                               !.data = data, !.cfg = cfg]
     IN IF r.err # NoErr
          THEN Step(w, [c EXCEPT !.pc = "done", !.diag = r.diag,
                          !.err = Wrap("failed to build machine spec", r.err)])
        ELSE Step(w, [c EXCEPT !.pc = "flavor", !.spec = r.spec])
  /\ UNCHANGED <<remote, nextID>>

\* a.cli.GetFlavor(spec.Flavor): the flavor is found, or the request fails.
ResolveFlavor(w) ==
  LET c == call[w] IN
  /\ c.pc = "flavor"
  /\ \/ \E flavor \in Flavors :
          Step(w, [c EXCEPT !.pc = "network", !.flavor = flavor,
                     !.steps = Append(c.steps, Lookup("GetFlavor", "ok"))])
     \/ Step(w, [c EXCEPT !.pc = "done",
                   !.steps = Append(c.steps, Lookup("GetFlavor", "error")),
                   !.err = Wrap("failed to resolve flavor", ErrRemote)])
  /\ UNCHANGED <<remote, nextID>>

\* a.cli.GetNetwork(spec.NetworkID).
ResolveNetwork(w) ==
  LET c == call[w] IN
  /\ c.pc = "network"
  /\ \/ Step(w, [c EXCEPT !.pc = "image",
                   !.steps = Append(c.steps, Lookup("GetNetwork", "ok"))])
     \/ Step(w, [c EXCEPT !.pc = "done",
                   !.steps = Append(c.steps, Lookup("GetNetwork", "error")),
                   !.err = Wrap("failed to resolve network", ErrRemote)])
  /\ UNCHANGED <<remote, nextID>>

\* CreateInstance choosing the create by the boot mode of the configuration.
AfterImage_BootModeOfConfig(c, img) ==
  LET found == [c EXCEPT !.image = img,
                         !.steps = Append(c.steps, Lookup("GetImage", "ok"))]
      m == SetSpecFromImage(c.spec, img)
      o == GetServerCreateOpts(m, c.flavor, img)
  IN IF ~OwnerAllowed(c.spec, img)
       THEN [found EXCEPT !.pc = "done",
                          !.err = <<"image owner is not allowed">>]
     ELSE IF o.err # NoErr
       THEN [found EXCEPT !.pc = "done", !.spec = m,
               !.err = Wrap("failed to get server create options", o.err)]
     ELSE [found EXCEPT !.pc = "submit", !.spec = m, !.opts = o.opts,
             !.op = IF c.cfg.BootFromVolume THEN "CreateServerFromVolume"
                    ELSE "CreateServerFromImage",
             !.blockDevice = IF m.BootFromVolume
                               THEN GetBootFromVolumeOpts(m, o.opts)
                             ELSE << >>,
             !.name = o.opts.Name, !.tags = o.opts.Tags]

\* CreateInstance once the image is resolved (provider.go 147-183), up to
\* the create of the client: the owner check, SetSpecFromImage, the create
\* options, and the create by image or by volume.
AfterImage(c, img) ==
  LET found == [c EXCEPT !.image = img,
                         !.steps = Append(c.steps, Lookup("GetImage", "ok"))]
      m == SetSpecFromImage(c.spec, img)
      o == GetServerCreateOpts(m, c.flavor, img)
  IN IF ~OwnerAllowed(c.spec, img)
       THEN [found EXCEPT !.pc = "done",
                          !.err = <<"image owner is not allowed">>]
     ELSE IF o.err # NoErr
       THEN [found EXCEPT !.pc = "done", !.spec = m,
               !.err = Wrap("failed to get server create options", o.err)]
     ELSE [found EXCEPT !.pc = "submit", !.spec = m, !.opts = o.opts,
             !.op = IF m.BootFromVolume THEN "CreateServerFromVolume"
                    ELSE "CreateServerFromImage",
             !.blockDevice = IF m.BootFromVolume
                               THEN GetBootFromVolumeOpts(m, o.opts)
                             ELSE << >>,
             !.name = o.opts.Name, !.tags = o.opts.Tags]

\* a.cli.GetImage(spec.Image) and what follows it.
ResolveImage(w) ==
  LET c == call[w] IN
  /\ c.pc = "image"
  /\ \/ \E img \in Images : Step(w, AfterImage(c, img))
     \/ Step(w, [c EXCEPT !.pc = "done",
                   !.steps = Append(c.steps, Lookup("GetImage", "error")),
                   !.err = Wrap("failed to resolve image info", ErrRemote)])
  /\ UNCHANGED <<remote, nextID>>

\* The documents and the bootstrap data CreateInstance is called with.
ProviderDocs ==
  {EmptyRaw,
   Object([NoFields EXCEPT !.boot_from_volume = JBool(TRUE),
                           !.boot_disk_size = JInt("150")]),
   Object([NoFields EXCEPT !.boot_from_volume = JBool(TRUE)]),
   Object([NoFields EXCEPT !.allowed_image_owners = JArr(<<"x2">>)]),
   Object([NoFields EXCEPT !.allowed_image_owners = JArr(<< >>)]),
   Object([NoFields EXCEPT !.extra_field = JStr("x2")])}

ProviderData == {BootstrapInstance("p1", raw) : raw \in ProviderDocs}

\* ------------------------------------------------------ the specification
\* The tenant before the first call: empty, or one server of any name and
\* owner; a server of the client in any settled status, a server the client
\* does not own active.
InitialRemotes ==
  {<< >>} \cup
  { <<[ID |-> UUIDPool[1], Name |-> x[1], Status |-> x[2], Tags |-> x[3],
       doomed |-> FALSE]>> :
      x \in { y \in Names \X {"ACTIVE", "SHUTOFF", "ERROR"} \X TagLists :
                y[2] = "ACTIVE" \/ y[3] = getTags(controllerID, "p1") } }

Init ==
  /\ remote \in InitialRemotes
  /\ nextID = Len(remote)
  /\ call = [w \in Workers |-> IdleCall]

Next ==
  \/ \E i \in 1..Len(UUIDPool) : RemoteProgress(i)
  \/ \E i \in 1..Len(UUIDPool) : ExternalDelete(i)
  \/ \E i \in 1..Len(UUIDPool) : RemoteReap(i)
  \/ \E w \in Workers, n \in CallNames, p \in PoolIDs : CreateServerFromImage(w, n, p)
  \/ \E w \in Workers, n \in CallNames, p \in PoolIDs : CreateServerFromVolume(w, n, p)
  \/ \E w \in Workers : CreateSubmit(w)
  \/ \E w \in Workers : waitForStatus(w)
  \/ \E w \in Workers : CreateRefetch(w)
  \/ \E w \in Workers, x \in Identifiers, b \in BOOLEAN : DeleteServer(w, x, b)
  \/ \E w \in Workers : DeleteResolve(w)
  \/ \E w \in Workers : DeleteForce(w)
  \/ \E w \in Workers, x \in Identifiers : GetInstance(w, x)
  \/ \E w \in Workers, p \in PoolIDs : ListInstances(w, p)
  \/ \E w \in Workers : RemoveAllInstances(w)
  \/ \E w \in Workers, x \in Identifiers : StopServer(w, x)
  \/ \E w \in Workers, x \in Identifiers : StartServer(w, x)
  \/ \E w \in Workers : StartStopAct(w)
  \/ \E w \in Workers : Return(w)

Spec == Init /\ [][Next]_vars

\* The calls that wait for a status, one call from each initial tenant: a
\* create with its rollback, or a DeleteServer.
WaitNext ==
  \/ \E i \in 1..Len(UUIDPool) : RemoteProgress(i)
  \/ \E i \in 1..Len(UUIDPool) : ExternalDelete(i)
  \/ \E i \in 1..Len(UUIDPool) : RemoteReap(i)
  \/ \E w \in Workers, n \in CallNames, p \in PoolIDs : CreateServerFromImage(w, n, p)
  \/ \E w \in Workers, n \in CallNames, p \in PoolIDs : CreateServerFromVolume(w, n, p)
  \/ \E w \in Workers : CreateSubmit(w)
  \/ \E w \in Workers : waitForStatus(w)
  \/ \E w \in Workers : CreateRefetch(w)
  \/ \E w \in Workers, x \in Identifiers, b \in BOOLEAN : DeleteServer(w, x, b)
  \/ \E w \in Workers : DeleteResolve(w)
  \/ \E w \in Workers : DeleteForce(w)

\* A call that waits for a status is running code: its next iteration of
\* the wait is taken.
WaitSpec ==
  Init /\ [][WaitNext]_vars /\ \A w \in Workers : WF_vars(waitForStatus(w))

\* One create from each initial tenant, with a context that may be
\* cancelled while the create waits.
CancelNext ==
  \/ \E i \in 1..Len(UUIDPool) : RemoteProgress(i)
  \/ \E i \in 1..Len(UUIDPool) : ExternalDelete(i)
  \/ \E i \in 1..Len(UUIDPool) : RemoteReap(i)
  \/ \E w \in Workers, n \in CallNames, p \in PoolIDs : CreateServerFromImage(w, n, p)
  \/ \E w \in Workers, n \in CallNames, p \in PoolIDs : CreateServerFromVolume(w, n, p)
  \/ \E w \in Workers : CreateSubmit(w)
  \/ \E w \in Workers : waitForStatus(w)
  \/ \E w \in Workers : CreateRefetch(w)
  \/ \E w \in Workers : DeleteResolve(w)
  \/ \E w \in Workers : DeleteForce(w)
  \/ \E w \in Workers : Cancel(w)

CancelSpec == Init /\ [][CancelNext]_vars

\* Two workers at once, each with one call on its own instance: w1 on the
\* server named "n1" (ID u1), w2 on the name "n2".
ConcWorkers == {"w1", "w2"}

\* The name of the instance a worker acts on.
InstanceOf(w) == IF w = "w1" THEN "n1" ELSE "n2"

\* The identifiers a worker calls with: the name of its instance and, for
\* w1, the ID of the server of that name.
HandlesOf(w) == IF w = "w1" THEN {"n1", UUIDPool[1]} ELSE {"n2"}

\* The tenant holds the server of w1, and that of w2 or none.
ConcInit ==
  /\ remote \in
       { <<NewServer(UUIDPool[1], "n1", getTags(controllerID, "p1"))>>,
         <<[NewServer(UUIDPool[1], "n1", getTags(controllerID, "p1"))
              EXCEPT !.Status = "ACTIVE"],
           [NewServer(UUIDPool[2], "n2", getTags(controllerID, "p1"))
              EXCEPT !.Status = "ACTIVE"]>> }
  /\ nextID = Len(remote)
  /\ call = [w \in ConcWorkers |-> IdleCall]

ConcNext ==
  \/ \E i \in 1..Len(UUIDPool) : RemoteProgress(i)
  \/ \E i \in 1..Len(UUIDPool) : RemoteReap(i)
  \/ \E w \in ConcWorkers : CreateServerFromImage(w, InstanceOf(w), "p1")
  \/ \E w \in ConcWorkers : CreateSubmit(w)
  \/ \E w \in ConcWorkers : waitForStatus(w)
  \/ \E w \in ConcWorkers : CreateRefetch(w)
  \/ \E w \in ConcWorkers : \E x \in HandlesOf(w) : DeleteServer(w, x, TRUE)
  \/ \E w \in ConcWorkers : DeleteResolve(w)
  \/ \E w \in ConcWorkers : DeleteForce(w)
  \/ \E w \in ConcWorkers : \E x \in HandlesOf(w) : GetInstance(w, x)
  \/ \E w \in ConcWorkers : \E x \in HandlesOf(w) : StopServer(w, x)
  \/ \E w \in ConcWorkers : \E x \in HandlesOf(w) : StartServer(w, x)
  \/ \E w \in ConcWorkers : StartStopAct(w)

ConcSpec == ConcInit /\ [][ConcNext]_vars

\* One CreateInstance of the provider, from the bootstrap data to the answer
\* of the create, in a tenant that is empty or holds a server of the client
\* with the name of the call; and NewMachineSpec on every document.
ProviderInit ==
  /\ remote \in {<< >>,
                 <<[ID |-> UUIDPool[1], Name |-> "n1", Status |-> "ACTIVE",
                    Tags |-> getTags(controllerID, "p1"), doomed |-> FALSE]>>}
  /\ nextID = Len(remote)
  /\ call = [w \in Workers |-> IdleCall]

ProviderNext ==
  \/ \E i \in 1..Len(UUIDPool) : RemoteProgress(i)
  \/ \E i \in 1..Len(UUIDPool) : ExternalDelete(i)
  \/ \E i \in 1..Len(UUIDPool) : RemoteReap(i)
  \/ \E w \in Workers :
       Free(w) /\ \E d \in ProviderData, cfg \in Configs : CreateInstance(w, d, cfg)
  \/ \E w \in Workers : ResolveFlavor(w)
  \/ \E w \in Workers : ResolveNetwork(w)
  \/ \E w \in Workers : ResolveImage(w)
  \/ \E w \in Workers : CreateSubmit(w)
  \/ \E w \in Workers : waitForStatus(w)
  \/ \E w \in Workers : CreateRefetch(w)
  \/ \E w \in Workers : DeleteResolve(w)
  \/ \E w \in Workers : DeleteForce(w)
  \/ \E w \in Workers :
       /\ Free(w) /\ remote = << >>
       /\ \E d \in BootstrapData, cfg \in Configs : ApplyNewMachineSpec(w, d, cfg)

ProviderSpec == ProviderInit /\ [][ProviderNext]_vars

\* The functions that build a machine specification and convert a server,
\* applied to inputs drawn from the sets above.
BuildInit ==
  /\ remote = << >>
  /\ nextID = 0
  /\ call = [w \in Workers |-> IdleCall]

BuildNext ==
  \/ \E w \in Workers :
       Free(w) /\ \E d \in BootstrapData, cfg \in Configs :
                    ApplyNewMachineSpec(w, d, cfg)
  \/ \E w \in Workers :
       Free(w) /\ \E raw \in RawMessages :
                    ApplyExtraSpecs(w, BootstrapInstance("p1", raw))
  \/ \E w \in Workers :
       Free(w) /\ \E m \in MachineSpecs : ApplyValidate(w, m)
  \/ \E w \in Workers :
       Free(w) /\ \E srv \in Servers :
                    \E o \in Orders(DOMAIN srv.Addresses) :
                      ApplyServerToInstance(w, srv, o)
  \/ \E w \in Workers : Return(w)

BuildSpec == BuildInit /\ [][BuildNext]_vars

\* ================================================================ claims
HasOwnTag(tags) == Tag(controllerIDTagName, controllerID) \in TagSet(tags)

IsCreate(c) == c.op \in {"CreateServerFromImage", "CreateServerFromVolume"}

Events(c, req) == {i \in 1..Len(c.log) : c.log[i].req = req}

\* C1: ListServersWithNameOrID never returns a server that lacks the tag
\* garm-controller-id=<controllerID>; GetServer on the UUID of such a server
\* returns the not-found error and no record.
C1_ResolutionIsScoped ==
  \A w \in Workers :
    LET c == call[w] IN
    /\ \A srv \in c.resolved : HasOwnTag(srv.Tags)
    /\ (c.op = "GetInstance" /\ c.pc = "done") =>
         /\ c.srv # NoServer => HasOwnTag(c.srv.Tags)
         /\ c.err = NoErr => c.srv # NoServer
         /\ ( /\ isUUID(c.nameOrID)
              /\ c.log[1].res \in Statuses
              /\ Present(c.nameOrID)
              /\ ~HasOwnTag(ServerByID(c.nameOrID).Tags) )
            => /\ c.srv = NoServer
               /\ Cause(c.err) = "server with name or ID not found"

\* A GetInstance by UUID found a server of another owner.
C1_Witness ==
  \E w \in Workers :
    LET c == call[w] IN
    /\ c.op = "GetInstance" /\ c.pc = "done"
    /\ isUUID(c.nameOrID)
    /\ c.log[1].res \in Statuses
    /\ Present(c.nameOrID)
    /\ ~HasOwnTag(ServerByID(c.nameOrID).Tags)
    /\ c.err # NoErr

\* C2: every force-delete, start and stop request of a call is for a
\* server that a scoped lookup of the same call returned, carrying the
\* client's controller tag; a server without that tag gets no such request.
C2_MutationsAreScoped ==
  \A w \in Workers :
    LET c == call[w] IN
    \A i \in 1..Len(c.log) :
      c.log[i].req \in {"ForceDelete", "Start", "Stop"} =>
        /\ \E srv \in c.resolved : srv.ID = c.log[i].id /\ HasOwnTag(srv.Tags)
        /\ Present(c.log[i].id) => HasOwnTag(ServerByID(c.log[i].id).Tags)

\* The rollback of a create issued a force-delete while a server of
\* another owner exists.
C2_Witness ==
  \E w \in Workers :
    LET c == call[w] IN
    /\ IsCreate(c)
    /\ Events(c, "ForceDelete") # {}
    /\ \E i \in 1..Len(remote) : ~HasOwnTag(remote[i].Tags)

\* C3: a create that returns an error has called the compensating
\* DeleteServer and returns the error of the create, poll or re-fetch,
\* whatever the rollback returned; a create that succeeds calls no delete.
C3_RollbackKeepsOriginalError ==
  \A w \in Workers :
    LET c == call[w] IN
    (IsCreate(c) /\ c.pc = "done") =>
      /\ c.err # NoErr =>
           /\ c.rollback
           /\ \E i \in 1..Len(c.log) : c.log[i].at = "resolve"
           /\ c.err = c.origErr
           /\ Head(c.err) \in {"failed to create server",
                               "server did not reach ACTIVE state after 120 seconds",
                               "failed to find server"}
      /\ c.err = NoErr =>
           /\ ~c.rollback
           /\ c.delErr = NoErr
           /\ \A i \in 1..Len(c.log) :
                c.log[i].at # "resolve" /\ c.log[i].req # "ForceDelete"

\* A create failed and its rollback failed too, with another error.
C3_Witness ==
  \E w \in Workers :
    LET c == call[w] IN
    /\ IsCreate(c) /\ c.pc = "done"
    /\ c.err # NoErr
    /\ c.delErr # NoErr
    /\ c.delErr # c.err

\* C4: a create that returns an error after the remote created a server
\* and answered with its ID has issued a force-delete for that server.
C4_FailedCreateForceDeletes ==
  \A w \in Workers :
    LET c == call[w] IN
    ( /\ IsCreate(c) /\ c.pc = "done" /\ c.err # NoErr
      /\ c.created # "" /\ c.log[1].res = "ok" )
    => \E i \in Events(c, "ForceDelete") : c.log[i].id = c.created

\* The lookup of a DeleteServer found no server: the point lookup answered
\* 404, or the listing had no server of that name.
NoSuchServer(c) ==
  /\ c.log # << >>
  /\ \/ c.log[1].req = "Get" /\ c.log[1].res = "404"
     \/ c.log[1].req = "List" /\ c.log[1].res = "ok" /\ c.resolved = {}

\* No request of the call failed, and no force delete answered 404.
NoFault(c) ==
  \A i \in 1..Len(c.log) :
    /\ c.log[i].res # "error"
    /\ c.log[i].req = "ForceDelete" => c.log[i].res = "ok"

C6_DeleteOutOfScopeSucceeds ==
  \A w \in Workers :
    LET c == call[w] IN
    ( /\ c.op = "DeleteServer" /\ c.pc = "done"
      /\ c.log[1].res # "error"
      /\ c.resolved = {} )
    => /\ c.err = NoErr
       /\ Events(c, "ForceDelete") = {}

\* C7: the rollback of a create deletes by the server ID when the remote
\* returned one, by the requested name otherwise.
C7_RollbackTarget ==
  \A w \in Workers :
    LET c == call[w] IN
    (IsCreate(c) /\ c.rollback) =>
      c.target = IF c.log[1].res = "ok" THEN c.created ELSE c.name

\* C8: a poll for ACTIVE that observes ERROR is the last poll of that wait;
\* the create returns "instance in ERROR state", not the timeout, and runs
\* its rollback.
C8_ErrorStateEndsPoll ==
  \A w \in Workers :
    LET c == call[w] IN
    \A i \in 1..Len(c.log) :
      (c.log[i].at = "waitACTIVE" /\ c.log[i].res = "ERROR") =>
        /\ \A j \in (i + 1)..Len(c.log) : c.log[j].at # "waitACTIVE"
        /\ c.pc \notin {"wait", "refetch"} \/ c.waitStatus # "ACTIVE"
        /\ c.rollback
        /\ c.err = <<"server did not reach ACTIVE state after 120 seconds",
                     "instance in ERROR state">>
        /\ Cause(c.err) # "A timeout occurred"

\* A create saw ERROR on its second poll and has returned.
C8_Witness ==
  \E w \in Workers :
    LET c == call[w] IN
    /\ IsCreate(c) /\ c.pc = "done"
    /\ Len(c.log) >= 3
    /\ c.log[2].at = "waitACTIVE" /\ c.log[2].res = "BUILD"
    /\ c.log[3].at = "waitACTIVE" /\ c.log[3].res = "ERROR"

\* C9: a poll for ACTIVE follows a create submission that returned an ID;
\* a poll for the disappearance of a server follows, with nothing but such
\* polls in between, a force-delete of that server that returned no error.
C9_PollAfterAcknowledgement ==
  \A w \in Workers :
    LET c == call[w] IN
    \A i \in 1..Len(c.log) :
      /\ c.log[i].at = "waitACTIVE" =>
           /\ c.log[1].req = "Create" /\ c.log[1].res = "ok"
           /\ c.log[1].id = c.log[i].id
      /\ c.log[i].at = "waitDELETED" =>
           /\ i > 1
           /\ c.log[i - 1].id = c.log[i].id
           /\ \/ c.log[i - 1].at = "waitDELETED"
              \/ c.log[i - 1].req = "ForceDelete" /\ c.log[i - 1].res = "ok"
      /\ (c.log[i].req = "Create" /\ c.log[i].res # "ok") =>
           \A j \in 1..Len(c.log) : c.log[j].at # "waitACTIVE"
      /\ (c.log[i].req = "ForceDelete" /\ c.log[i].res # "ok" /\ i < Len(c.log)) =>
           c.log[i + 1].at # "waitDELETED"

\* A call polled for a disappearance right after its force-delete and has
\* returned.
C9_Witness ==
  \E w \in Workers :
    LET c == call[w] IN
    \E i \in 1..Len(c.log) :
      /\ c.log[i].at = "waitDELETED"
      /\ c.log[i - 1].req = "ForceDelete"
      /\ c.pc = "done"

\* The wait whose poll is the last request of the call ended with success:
\* DeleteServer went on to the next match or returned nil.
LastWaitSucceeded(c) ==
  \/ c.pc = "del_force"
  \/ c.pc = "done" /\ (IF IsCreate(c) THEN c.delErr ELSE c.err) = NoErr

\* C10: a 404 from the point lookup of a poll ends a wait for DELETED with
\* success and a wait for ACTIVE with an error; a server seen with status
\* DELETED ends a wait for DELETED with success.
C10_NotFoundInPoll ==
  \A w \in Workers :
    LET c == call[w]
        n == Len(c.log)
    IN
    /\ \A i \in 1..n :
         (c.log[i].at = "waitACTIVE" /\ c.log[i].res = "404") =>
           /\ \A j \in (i + 1)..n : c.log[j].at # "waitACTIVE"
           /\ c.origErr = <<"server did not reach ACTIVE state after 120 seconds",
                            "could not find server", "ErrDefault404">>
           /\ c.pc # "wait" \/ c.waitStatus # "ACTIVE"
           /\ c.pc # "refetch"
    /\ \A i \in 1..n :
         (c.log[i].at = "waitDELETED" /\ c.log[i].res \in {"404", "DELETED"}) =>
           /\ i < n => c.log[i + 1].at # "waitDELETED"
           /\ i = n => LastWaitSucceeded(c)

\* A create got a 404 from a poll for ACTIVE.
C10_Witness ==
  \E w \in Workers :
    LET c == call[w] IN
    \E i \in 1..Len(c.log) :
      /\ c.log[i].at = "waitACTIVE" /\ c.log[i].res = "404"
      /\ c.pc = "done"

\* A delete got a 404 from a poll for DELETED, and one saw status DELETED.
C10_DeleteWitness ==
  \E w \in Workers :
    LET c == call[w] IN
    /\ c.op = "DeleteServer" /\ c.pc = "done"
    /\ \E i \in 1..Len(c.log) :
         c.log[i].at = "waitDELETED" /\ c.log[i].res = "404"

\* C11: DeleteServer(nameOrID, waitForDelete) polls for the disappearance
\* of a server only when waitForDelete is true: a DeleteServer called with
\* waitForDelete = false issues no status poll.
C11_PollOnlyWhenRequested ==
  \A w \in Workers :
    LET c == call[w] IN
    (c.op = "DeleteServer" /\ ~c.waitForDelete) =>
      \A i \in 1..Len(c.log) : c.log[i].at # "waitDELETED"

\* A DeleteServer is in progress or has returned in this call: the call
\* itself, or the rollback of a create.
InDelete(c) == c.op = "DeleteServer" \/ c.rollback

\* What that DeleteServer returned.
DeleteResult(c) == IF IsCreate(c) THEN c.delErr ELSE c.err

\* The servers a lookup by name is to return: those of that name carrying
\* the client's controller tag.
OwnByName(name) ==
  {View(remote[i]) : i \in {j \in 1..Len(remote) :
                              remote[j].Name = name /\ HasOwnTag(remote[j].Tags)}}

\* C12: the matches of a DeleteServer by name are all the servers of that
\* name carrying the client's controller tag; every force-delete is for one
\* of the matches, each match at most once, so no server of another name
\* is deleted; a DeleteServer that returns nil has force-deleted every
\* match; given a UUID there is at most one force-delete.
C12_DeleteEveryMatch ==
  /\ [][\A w \in Workers :
          ( /\ call[w].pc = "del_resolve"
            /\ call'[w] # call[w]
            /\ ~isUUID(call[w].target)
            /\ call'[w].log[Len(call'[w].log)].res = "ok" )
          => call'[w].resolved = OwnByName(call[w].target)]_vars
  /\ [](\A w \in Workers :
          LET c == call[w]
              dels == Events(c, "ForceDelete")
          IN
          InDelete(c) =>
            /\ \A i \in dels :
                 \E s \in c.resolved :
                   /\ s.ID = c.log[i].id
                   /\ HasOwnTag(s.Tags)
                   /\ ~isUUID(c.target) => s.Name = c.target
            /\ \A i, j \in dels : i # j => c.log[i].id # c.log[j].id
            /\ isUUID(c.target) => Cardinality(dels) <= 1
            /\ (c.pc = "done" /\ DeleteResult(c) = NoErr) =>
                 \A s \in c.resolved : \E i \in dels : c.log[i].id = s.ID)

\* A DeleteServer by name found two servers of that name, force-deleted
\* both and returned nil, while a server of another name was left alone.
C12_Witness ==
  \E w \in Workers :
    LET c == call[w] IN
    /\ c.op = "DeleteServer" /\ c.pc = "done" /\ c.err = NoErr
    /\ ~isUUID(c.nameOrID)
    /\ Cardinality(c.resolved) = 2
    /\ Cardinality(Events(c, "ForceDelete")) = 2

\* The causes of the error of a lookup that found no server in scope.
NotFoundCauses ==
  {"failed to find server with name or id", "server with name or ID not found",
   "ErrDefault404"}

\* C13: GetInstance returns a server exactly when the scoped resolution
\* yields one match, and then that match; no match gives a not-found
\* error, several matches give the error asking for manual intervention,
\* and neither returns a record.
C13_GetServerExactlyOne ==
  \A w \in Workers :
    LET c == call[w]
        n == Cardinality(c.resolved)
    IN
    (c.op = "GetInstance" /\ c.pc = "done") =>
      /\ c.srv # NoServer <=> (n = 1 /\ c.err = NoErr)
      /\ c.srv # NoServer => c.srv \in c.resolved
      /\ (n = 0 /\ c.log[1].res # "error") =>
           /\ c.srv = NoServer
           /\ Head(c.err) = "failed to get server"
           /\ Cause(c.err) \in NotFoundCauses
      /\ n > 1 =>
           /\ c.srv = NoServer
           /\ Cause(c.err) =
                "multiple servers with name or id; manual intervention required"

\* A GetInstance by name found two servers of that name.
C13_Witness ==
  \E w \in Workers :
    LET c == call[w] IN
    /\ c.op = "GetInstance" /\ c.pc = "done"
    /\ ~isUUID(c.nameOrID)
    /\ Cardinality(c.resolved) = 2
    /\ c.err # NoErr

\* The entries of the log that are the request of a ListServersWithNameOrID.
Lookups(c) == {i \in 1..Len(c.log) : c.log[i].at \in {"resolve", "refetch"}}

\* C14: the request of a resolution depends on the syntax of its input
\* alone: a point lookup and no listing for a UUID, with at most one
\* result; for any other input a listing filtered on the client's
\* controller tag and no point lookup, the results being of that name.
C14_DispatchOnSyntax ==
  \A w \in Workers :
    LET c == call[w] IN
    /\ \A i \in Lookups(c) :
         /\ isUUID(c.log[i].id) =>
              /\ c.log[i].req = "Get"
              /\ c.log[i].filter = << >>
         /\ ~isUUID(c.log[i].id) =>
              /\ c.log[i].req = "List"
              /\ c.log[i].filter = <<Tag(controllerIDTagName, controllerID)>>
         /\ \A j \in Lookups(c) : j > i =>
              c.log[i].at = "refetch" /\ c.log[j].at = "resolve"
    /\ \A i \in Lookups(c) :
         (\A j \in Lookups(c) : j <= i) =>
           /\ isUUID(c.log[i].id) => Cardinality(c.resolved) <= 1
           /\ ~isUUID(c.log[i].id) =>
                \A s \in c.resolved : s.Name = c.log[i].id

\* A lookup by name listed two servers of the client and kept the one of
\* that name.
C14_Witness ==
  \E w \in Workers :
    LET c == call[w] IN
    /\ c.pc = "done"
    /\ Lookups(c) = {1}
    /\ ~isUUID(c.log[1].id)
    /\ c.log[1].req = "List"
    /\ Cardinality(c.resolved) = 1
    /\ \E i \in 1..Len(remote) :
         /\ HasOwnTag(remote[i].Tags)
         /\ remote[i].Name # c.log[1].id

\* The value of the pool tag of a server, "" when it has none.
PoolOf(tags) ==
  IF \E i \in 1..Len(tags) : tags[i].k = poolIDTagName
    THEN tags[CHOOSE i \in 1..Len(tags) : tags[i].k = poolIDTagName].v
    ELSE ""

\* Two servers of the client share the name and are in different pools.
TwinsInPools(name) ==
  \E i, j \in 1..Len(remote) :
    /\ i # j
    /\ remote[i].Name = name /\ remote[j].Name = name
    /\ HasOwnTag(remote[i].Tags) /\ HasOwnTag(remote[j].Tags)
    /\ PoolOf(remote[i].Tags) # PoolOf(remote[j].Tags)
    /\ PoolOf(remote[i].Tags) \in PoolIDs /\ PoolOf(remote[j].Tags) \in PoolIDs

\* C15: while two servers of the client share a name and carry different
\* pool tags, the listing of either pool holds exactly one server of that
\* name, and GetInstance by that name returns the error of the ambiguous
\* match and no server.
C15_PoolScopeDisambiguates ==
  [][\A w \in Workers, name \in Names :
       ( /\ TwinsInPools(name)
         /\ call[w].pc = "idle"
         /\ call'[w].pc = "done"
         /\ call'[w].log # << >>
         /\ call'[w].log[1].res = "ok" )
       => LET c == call'[w] IN
          /\ c.op = "ListInstances" =>
               /\ c.err = NoErr
               /\ (\E i \in 1..Len(remote) :
                     remote[i].Name = name /\ PoolOf(remote[i].Tags) = c.nameOrID)
                  => Cardinality({i \in 1..Len(c.results) :
                                    c.results[i].Name = name}) = 1
               /\ \A i \in 1..Len(c.results) :
                    PoolOf(c.results[i].Tags) = c.nameOrID
          /\ (c.op = "GetInstance" /\ c.nameOrID = name) =>
               /\ c.srv = NoServer
               /\ Cause(c.err) =
                    "multiple servers with name or id; manual intervention required"]_vars

\* The listing of a pool returned one of two servers of the same name.
C15_Witness ==
  \E w \in Workers :
    LET c == call[w] IN
    /\ c.op = "ListInstances" /\ c.pc = "done" /\ c.err = NoErr
    /\ TwinsInPools("n1")
    /\ Cardinality({i \in 1..Len(c.results) : c.results[i].Name = "n1"}) = 1
    /\ \E i \in 1..Len(remote) :
         remote[i].Name = "n1" /\ View(remote[i]) \notin
           {c.results[k] : k \in 1..Len(c.results)}

IsStartStop(c) == c.op \in {"StopServer", "StartServer"}

\* The start and stop requests of a call.
Acts(c) == {i \in 1..Len(c.log) : c.log[i].req \in {"Start", "Stop"}}

\* C16: StopServer on a server resolved with status SHUTOFF and StartServer
\* on one resolved with status ACTIVE return nil without a stop or start
\* request; in any other status the call issues exactly one request, of its
\* own kind and for the ID of the resolved server, and returns an error
\* exactly when that request failed.
C16_StartStopIdempotent ==
  \A w \in Workers :
    LET c == call[w]
        req == IF c.op = "StopServer" THEN "Stop" ELSE "Start"
        idle == IF c.op = "StopServer" THEN "SHUTOFF" ELSE "ACTIVE"
    IN
    (IsStartStop(c) /\ c.srv # NoServer) =>
      /\ c.srv.Status = idle =>
           /\ c.pc = "done"
           /\ Acts(c) = {}
           /\ c.err = NoErr
      /\ c.srv.Status # idle =>
           /\ c.pc = "act" => Acts(c) = {}
           /\ c.pc = "done" =>
                /\ Cardinality(Acts(c)) = 1
                /\ \A i \in Acts(c) :
                     /\ c.log[i].req = req
                     /\ c.log[i].id = c.srv.ID
                     /\ c.log[i].res = "error" <=> c.err # NoErr
                     /\ c.log[i].res = "error" =>
                          /\ Head(c.err) = "failed to stop server"
                          /\ Unwrap(c.err) \in {ErrRemote, ErrDefault404}

\* A StopServer found its server shut off and returned nil.
C16_Witness ==
  \E w \in Workers :
    LET c == call[w] IN
    /\ c.op = "StopServer" /\ c.pc = "done"
    /\ c.srv # NoServer /\ c.srv.Status = "SHUTOFF"
    /\ c.err = NoErr
    /\ Acts(c) = {}

\* C17: StartServer and StopServer whose lookup fails or yields no server
\* or more than one (no such server, a server of another owner, several
\* servers of the name) return the error of the lookup and issue no start
\* or stop request.
C17_StartStopUnresolved ==
  \A w \in Workers :
    LET c == call[w] IN
    ( /\ IsStartStop(c)
      /\ \/ c.log[1].res \in {"error", "404"}
         \/ Cardinality(c.resolved) # 1 )
    => /\ c.pc = "done"
       /\ c.err # NoErr
       /\ Head(c.err) = "failed to get server"
       /\ c.srv = NoServer
       /\ Acts(c) = {}

\* A StartServer by name found two servers of that name.
C17_Witness ==
  \E w \in Workers :
    LET c == call[w] IN
    /\ c.op = "StartServer" /\ c.pc = "done"
    /\ Cardinality(c.resolved) = 2
    /\ c.err # NoErr

\* A StopServer was given the UUID of a server of another owner.
C17_ForeignWitness ==
  \E w \in Workers :
    LET c == call[w] IN
    /\ c.op = "StopServer" /\ c.pc = "done"
    /\ isUUID(c.nameOrID)
    /\ c.log[1].res \in Statuses
    /\ c.resolved = {}
    /\ c.err # NoErr

\* The polls of a call for the status of server id.
Polls(c, at, id) ==
  {i \in 1..Len(c.log) : c.log[i].at = at /\ c.log[i].id = id}

\* The answer of a poll ends its wait: the awaited status, a 404, a failed
\* request or the status ERROR.
EndsWait(e) ==
  \/ e.at = "waitACTIVE" /\ e.res \in {"ACTIVE", "ERROR", "404", "error"}
  \/ e.at = "waitDELETED" /\ e.res \in {"DELETED", "ERROR", "404", "error"}

\* C18: every status wait ends: a wait makes at most PollSecs polls, the
\* poll whose answer is the awaited status or a fatal condition is its
\* last, a wait that used up its polls returns the timeout error, and a
\* call that is waiting eventually is not, whatever the remote does.
C18_WaitTerminates ==
  /\ [](\A w \in Workers :
          LET c == call[w] IN
          /\ c.elapsed <= PollSecs
          /\ \A id \in UUIDs, at \in {"waitACTIVE", "waitDELETED"} :
               /\ Cardinality(Polls(c, at, id)) <= PollSecs
               /\ \A i \in Polls(c, at, id) :
                    EndsWait(c.log[i]) =>
                      /\ \A j \in Polls(c, at, id) : j <= i
                      /\ c.pc # "wait" \/ c.waitID # id
                         \/ c.log[i].at # "wait" \o c.waitStatus
               /\ ( /\ c.pc # "wait" \/ c.waitID # id
                       \/ at # "wait" \o c.waitStatus
                    /\ Cardinality(Polls(c, at, id)) = PollSecs
                    /\ \A i \in Polls(c, at, id) : ~EndsWait(c.log[i]) )
                  => Cause(IF at = "waitACTIVE" THEN c.origErr
                           ELSE DeleteResult(c)) = "A timeout occurred")
  /\ \A w \in Workers : (call[w].pc = "wait") ~> (call[w].pc # "wait")

\* A create polled until its deadline while the server stayed in BUILD and
\* returned the timeout error.
C18_Witness ==
  \E w \in Workers :
    LET c == call[w] IN
    /\ IsCreate(c) /\ c.pc = "done"
    /\ Cardinality(Polls(c, "waitACTIVE", c.created)) = PollSecs
    /\ \A i \in Polls(c, "waitACTIVE", c.created) : c.log[i].res = "BUILD"
    /\ Cause(c.err) = "A timeout occurred"

\* C19: once the context of a create is cancelled during its wait for
\* ACTIVE, the wait makes no poll beyond the one in flight, and the create
\* returns an error after calling its rollback.
C19_CancelStopsPoll ==
  \A w \in Workers :
    LET c == call[w] IN
    c.cancelAt >= 0 =>
      /\ Cardinality({i \in 1..Len(c.log) :
                        c.log[i].at = "waitACTIVE" /\ i > c.cancelAt}) <= 1
      /\ c.pc = "done" => c.rollback /\ c.err # NoErr

\* The servers of the tenant that are not of the instance of worker w.
NotOf(servers, w) ==
  SelectSeqBy(servers, [i \in 1..Len(servers) |-> servers[i].Name # InstanceOf(w)])

\* C20: two calls at once on different instances do not interfere, however
\* their remote requests interleave: a call creates, force-deletes, starts
\* and stops servers of its own instance only, a step of one call changes
\* neither the servers of the other instance nor the other call, so every
\* answer a call gets is the one it gets without the other call.
C20_ConcurrentCallsIndependent ==
  /\ [](\A w \in ConcWorkers :
          LET c == call[w] IN
          \A i \in 1..Len(c.log) :
            /\ c.log[i].req \in {"ForceDelete", "Start", "Stop"} =>
                 \E s \in c.resolved :
                   s.ID = c.log[i].id /\ s.Name = InstanceOf(w)
            /\ (c.log[i].req = "Create" /\ Present(c.log[i].id)) =>
                 ServerByID(c.log[i].id).Name = InstanceOf(w)
            /\ \A s \in c.resolved : s.Name = InstanceOf(w))
  /\ [][\A w \in ConcWorkers :
          call'[w] # call[w] =>
            /\ NotOf(remote', w) = NotOf(remote, w)
            /\ \A v \in ConcWorkers \ {w} : call'[v] = call[v]]_vars

\* Both calls are in the middle of their requests: one has force-deleted
\* its server and waits for it to go, the other waits for the server it
\* created.
C20_Witness ==
  /\ call["w1"].op = "DeleteServer" /\ call["w1"].pc = "wait"
  /\ Events(call["w1"], "ForceDelete") # {}
  /\ IsCreate(call["w2"]) /\ call["w2"].pc = "wait"
  /\ call["w2"].waitStatus = "ACTIVE"
  /\ Len(call["w2"].log) >= 2

\* ---- the build specification: C21..C25
\* A call of NewMachineSpec that returned a specification.
Built(c) == c.op = "NewMachineSpec" /\ c.pc = "done" /\ c.err = NoErr

\* The fields of the extra_specs document of a call.
Doc(c) == c.data.ExtraSpecs.fields

\* The boolean and integer override fields follow the presence rule: present,
\* the value of the document is the value of the specification, whatever it
\* is; absent, the default of the configuration is.
PresenceRule(c) ==
  LET f == Doc(c)
      m == c.spec
  IN /\ \A b \in BOOLEAN :
          /\ f.boot_from_volume = JBool(b) => m.BootFromVolume = b
          /\ f.use_config_drive = JBool(b) => m.UseConfigDrive = b
          /\ f.disable_updates = JBool(b) => m.DisableUpdates = b
          /\ f.enable_boot_debug = JBool(b) =>
               m.BootstrapParams.UserDataOptions.EnableBootDebug = b
     /\ f.boot_disk_size = JInt("0") => m.BootDiskSize = 0
     /\ f.boot_disk_size = JInt("150") => m.BootDiskSize = 150
     /\ f.boot_from_volume = Absent => m.BootFromVolume = c.cfg.BootFromVolume
     /\ f.use_config_drive = Absent => m.UseConfigDrive = c.cfg.UseConfigDrive
     /\ f.disable_updates = Absent => m.DisableUpdates = FALSE
     /\ f.enable_boot_debug = Absent =>
          m.BootstrapParams.UserDataOptions.EnableBootDebug
            = (c.cfg.EnableBootDebug \/ c.data.UserDataOptions.EnableBootDebug)
     /\ f.boot_disk_size = Absent =>
          m.BootDiskSize = IF c.cfg.BootDiskSize.set THEN c.cfg.BootDiskSize.v
                           ELSE defaultBootDiskSize
     /\ f.network_id = Absent => m.NetworkID = c.cfg.DefaultNetworkID
     /\ f.storage_backend = Absent =>
          m.StorageBackend = c.cfg.DefaultStorageBackend

\* C21 as stated: for every override field, a value explicitly present in
\* the document replaces the default even when it is the zero value, the
\* string fields network_id and storage_backend alike, and an absent field
\* leaves the default unchanged.
C21_PresentAlwaysReplaces ==
  \A w \in Workers :
    Built(call[w]) =>
      /\ PresenceRule(call[w])
      /\ \A s \in {"", "x2"} :
           /\ Doc(call[w]).network_id = JStr(s) => call[w].spec.NetworkID = s
           /\ Doc(call[w]).storage_backend = JStr(s) =>
                call[w].spec.StorageBackend = s

\* C21: a boolean or integer override field (boot_from_volume,
\* use_config_drive, enable_boot_debug, disable_updates, boot_disk_size)
\* present in the document replaces the default even when it is false or 0,
\* and absent leaves the default unchanged; a string field (network_id,
\* storage_backend) replaces the default when present and non-empty and
\* leaves it unchanged when absent or empty.
C21_PresenceRule ==
  \A w \in Workers :
    Built(call[w]) =>
      /\ PresenceRule(call[w])
      /\ Doc(call[w]).network_id = JStr("x2") => call[w].spec.NetworkID = "x2"
      /\ Doc(call[w]).storage_backend = JStr("x2") =>
           call[w].spec.StorageBackend = "x2"
      /\ Doc(call[w]).network_id = JStr("") =>
           call[w].spec.NetworkID = call[w].cfg.DefaultNetworkID
      /\ Doc(call[w]).storage_backend = JStr("") =>
           call[w].spec.StorageBackend = call[w].cfg.DefaultStorageBackend

\* A document that sets boot_from_volume to false and boot_disk_size to 0
\* over defaults of true and 100 was merged.
C21_Witness ==
  \E w \in Workers :
    /\ Built(call[w])
    /\ call[w].cfg = FullConfig
    /\ Doc(call[w]).boot_from_volume = JBool(FALSE)
    /\ Doc(call[w]).boot_disk_size = JInt("0")
    /\ ~call[w].spec.BootFromVolume
    /\ call[w].spec.BootDiskSize = 0

\* C22: security_groups and allowed_image_owners of the document replace the
\* default list wholesale only when present and non-empty; absent or empty
\* (an explicit [] included), the merged specification keeps the default.
C22_ListsReplaceWhenNonEmpty ==
  \A w \in Workers :
    Built(call[w]) =>
      LET f == Doc(call[w])
          m == call[w].spec
          cfg == call[w].cfg
      IN /\ f.security_groups = JArr(<<"x2">>) => m.SecurityGroups = <<"x2">>
         /\ f.security_groups \in {Absent, JArr(<< >>)} =>
              m.SecurityGroups = cfg.DefaultSecurityGroups
         /\ f.allowed_image_owners = JArr(<<"x2">>) =>
              m.AllowedImageOwners = <<"x2">>
         /\ f.allowed_image_owners \in {Absent, JArr(<< >>)} =>
              m.AllowedImageOwners = cfg.AllowedImageOwners

\* C23: for every default visibility and every override visibility, the
\* merged visibility is the override when it is one of public, private,
\* shared, community, all; an empty, unrecognized or absent override leaves
\* the default unchanged, and a document that only sets the visibility raises
\* no error.
C23_VisibilityOverride ==
  \A w \in Workers :
    LET c == call[w] IN
    /\ Built(c) =>
         /\ \A v \in {"public", "private", "shared", "community", "all"} :
              Doc(c).image_visibility = JStr(v) => c.spec.ImageVisibility = v
         /\ Doc(c).image_visibility \in {Absent, JStr(""), JStr("invalid")} =>
              c.spec.ImageVisibility = c.cfg.ImageVisibility
    /\ ( /\ c.op = "NewMachineSpec" /\ c.pc = "done"
         /\ c.data.ExtraSpecs.kind = "object"
         /\ PresentKeys(c.data.ExtraSpecs) = {"image_visibility"}
         /\ Doc(c).image_visibility.t = "string"
         /\ c.data = BootstrapInstance(c.data.PoolID, c.data.ExtraSpecs) )
       => c.err = NoErr

\* An unrecognized visibility was merged over the default "shared" and left
\* it in place.
C23_Witness ==
  \E w \in Workers :
    /\ Built(call[w])
    /\ call[w].cfg.ImageVisibility = "shared"
    /\ Doc(call[w]).image_visibility = JStr("invalid")
    /\ call[w].spec.ImageVisibility = "shared"

\* The keys of a document that the schema does not declare or whose value is
\* not of the declared JSON type.
Undeclared(raw) == PresentKeys(raw) \ DOMAIN generateJSONSchema
WrongType(raw) ==
  {k \in PresentKeys(raw) \cap DOMAIN generateJSONSchema :
     raw.fields[k].t # generateJSONSchema[k]}

Fails(m, i) ==
  CASE i = 1 -> m.NetworkID = ""
    [] i = 2 -> m.BootFromVolume /\ m.BootDiskSize = 0
    [] i = 3 -> m.Flavor = ""
    [] i = 4 -> m.Image = ""
    [] i = 5 -> m.Tags = << >>
    [] i = 6 -> ~m.Tools.DownloadURL.set
    [] OTHER -> m.BootstrapParams.Name = ""

Reports ==
  <<"missing network ID",
    "boot from volume is enabled, and boot disk size is 0",
    "missing flavor", "missing image",
    "missing tags; at least the controller ID and pool ID must be set",
    "missing tools", "missing bootstrap params">>

\* C25: NewMachineSpec never returns a specification with an empty network
\* ID, boot from volume with boot disk size 0, an empty flavor, an empty
\* image, no tags, no tools download URL or an empty name, it fails on
\* bootstrap data that lacks one of them; and Validate reports the first
\* check that fails, in that order, and nil when none does.
C25_NeverIncomplete ==
  \A w \in Workers :
    LET c == call[w] IN
    /\ Built(c) => \A i \in 1..7 : ~Fails(c.spec, i)
    /\ ( /\ c.op = "NewMachineSpec" /\ c.pc = "done"
         /\ \/ c.data.Flavor = "" \/ c.data.Image = "" \/ c.data.Name = ""
            \/ \A i \in 1..Len(c.data.Tools) : ~c.data.Tools[i].DownloadURL.set )
       => c.err # NoErr /\ c.spec.nil
    /\ c.op = "Validate" =>
         /\ \A i \in 1..7 :
              c.err = <<Reports[i]>>
                <=> (Fails(c.spec, i) /\ \A j \in 1..(i - 1) : ~Fails(c.spec, j))
         /\ c.err = NoErr <=> \A i \in 1..7 : ~Fails(c.spec, i)

\* Bootstrap data without flavor and without image was rejected for the
\* flavor, the earlier of the two checks.
C25_Witness ==
  \E w \in Workers :
    /\ call[w].op = "NewMachineSpec" /\ call[w].pc = "done"
    /\ call[w].data.Flavor = "" /\ call[w].data.Image = ""
    /\ call[w].err = <<"failed to validate spec", "missing flavor">>
    /\ call[w].spec.nil

\* ---- the build specification: C28, C29
\* A call of openstackServerToInstance.
Converted(c) == c.op = "openstackServerToInstance" /\ c.pc = "done"

\* C28: openstackServerToInstance maps ACTIVE to running, SHUTOFF to stopped,
\* BUILD to pending_create, ERROR to error, DELETING to pending_delete, and
\* every other status to the empty status.
C28_StatusTable ==
  \A w \in Workers :
    Converted(call[w]) =>
      call[w].instance.Status =
        CASE call[w].server.Status = "ACTIVE" -> "running"
          [] call[w].server.Status = "SHUTOFF" -> "stopped"
          [] call[w].server.Status = "BUILD" -> "pending_create"
          [] call[w].server.Status = "ERROR" -> "error"
          [] call[w].server.Status = "DELETING" -> "pending_delete"
          [] OTHER -> ""

\* A server in status DELETED was converted to an instance of empty status.
C28_Witness ==
  \E w \in Workers :
    /\ Converted(call[w])
    /\ call[w].server.Status = "DELETED"
    /\ call[w].instance.Status = ""

\* The number of entries of a sequence that satisfy a test.
Count(seq, Test(_)) == Cardinality({i \in 1..Len(seq) : Test(seq[i])})

\* The number of address entries of a server, over the networks whose value
\* is a list, with the string address addr and the type given.
Remote(srv, addr, type) ==
  LET In(n) ==
        IF n \in DOMAIN srv.Addresses /\ srv.Addresses[n].list
          THEN Count(srv.Addresses[n].entries,
                     LAMBDA e : /\ e.shape = "map"
                                /\ e.addr = JStr(addr)
                                /\ e.type = JStr(type))
        ELSE 0
  IN In("net1") + In("net2")

\* C29: the addresses of the instance are exactly one entry for every remote
\* entry with a string address and the type fixed or floating, fixed as
\* private and floating as public; every other entry is dropped, and a
\* server without addresses gives an instance with none.
C29_AddressesKept ==
  \A w \in Workers :
    Converted(call[w]) =>
      LET srv == call[w].server
          out == call[w].instance.Addresses
      IN /\ \A a \in {"10.0.0.1", "172.24.4.9"} :
              /\ Count(out, LAMBDA x : x = [Address |-> a, Type |-> "private"])
                   = Remote(srv, a, "fixed")
              /\ Count(out, LAMBDA x : x = [Address |-> a, Type |-> "public"])
                   = Remote(srv, a, "floating")
         /\ \A i \in 1..Len(out) :
              /\ out[i].Address \in {"10.0.0.1", "172.24.4.9"}
              /\ out[i].Type \in {"private", "public"}
         /\ DOMAIN srv.Addresses = {} => out = << >>

\* A network with a fixed entry and an entry of another type was converted:
\* the fixed entry is kept as private, the other dropped.
C29_Witness ==
  \E w \in Workers :
    /\ Converted(call[w])
    /\ DOMAIN call[w].server.Addresses = {"net1"}
    /\ call[w].server.Addresses["net1"].entries
         = <<[shape |-> "map", addr |-> JStr("10.0.0.1"), type |-> JStr("other")],
             [shape |-> "map", addr |-> JStr("172.24.4.9"), type |-> JStr("fixed")]>>
    /\ call[w].instance.Addresses
         = <<[Address |-> "172.24.4.9", Type |-> "private"]>>

\* ---- the provider specification: C26, C27, C30
\* A CreateInstance that holds the specification NewMachineSpec returned.
Creating(c) == c.provider /\ ~c.spec.nil

\* The specification as NewMachineSpec returned it to the call.
Returned(c) == NewMachineSpec(c.data, c.cfg, controllerID).spec

\* What SetSpecFromImage may add for an image: os_name from a string
\* os_distro, os_version from a string os_version.
FromImage(img) ==
  {p \in {<<"os_name", img.Properties.os_distro>>,
          <<"os_version", img.Properties.os_version>>} : p[2].t = "string"}

\* C26 as stated: once NewMachineSpec has returned, no field of the
\* specification is modified during the remainder of CreateInstance.
C26_NothingModified ==
  \A w \in Workers :
    Creating(call[w]) => call[w].spec = Returned(call[w])

\* C26: once NewMachineSpec has returned, no field of the specification is
\* modified during the remainder of CreateInstance, but for the metadata
\* properties: SetSpecFromImage adds os_name and os_version from the image
\* resolved, and leaves the properties of NewMachineSpec as they are.
C26_OnlyImagePropertiesAdded ==
  \A w \in Workers :
    LET c == call[w]
        m == Returned(c)
    IN Creating(c) =>
         /\ [c.spec EXCEPT !.Properties = m.Properties] = m
         /\ \A k \in DOMAIN m.Properties :
              /\ k \in DOMAIN c.spec.Properties
              /\ c.spec.Properties[k] = m.Properties[k]
         /\ \A k \in DOMAIN c.spec.Properties \ DOMAIN m.Properties :
              /\ c.pc \notin {"flavor", "network", "image"}
              /\ <<k, JStr(c.spec.Properties[k])>> \in FromImage(c.image)
         /\ (c.pc \in {"submit", "wait", "refetch"}) =>
              \A p \in FromImage(c.image) :
                 c.spec.Properties[p[1]] = p[2].v[1]

\* A create waits for its server with the properties of the image added to
\* the specification.
C26_Witness ==
  \E w \in Workers :
    /\ Creating(call[w])
    /\ call[w].pc = "wait"
    /\ call[w].image.Properties.os_distro = JStr("ubuntu")
    /\ call[w].spec.Properties["os_name"] = "ubuntu"
    /\ call[w].spec.Properties["os_arch"] = "amd64"
    /\ call[w].spec.Tags = Returned(call[w]).Tags

\* The tags of the request of a call: its pool and the controller.
OwnTags(c) ==
  <<Tag(poolIDTagName, c.data.PoolID), Tag(controllerIDTagName, controllerID)>>

\* A lookup of the client made now, answered without a fault, returns srv:
\* by its ID, by its name, and in the listing of the pool.
Visible(srv, poolID) ==
  /\ \A reply \in ResolveReplies(srv.ID) :
       reply.err = NoErr =>
         ListServersWithNameOrID(srv.ID, reply).results = <<View(srv)>>
  /\ \A reply \in ResolveReplies(srv.Name) :
       reply.err = NoErr =>
         LET r == ListServersWithNameOrID(srv.Name, reply).results
         IN \E k \in 1..Len(r) : r[k] = View(srv)
  /\ \A reply \in ListReplies(ListServersTags(poolID)) :
       reply.err = NoErr =>
         LET r == ListServers(poolID, reply).results
         IN \E k \in 1..Len(r) : r[k] = View(srv)

\* C27: every specification NewMachineSpec returns carries exactly the tags
\* garm-pool-id=<pool of the request> and garm-controller-id=<controller>,
\* whatever the override document; CreateInstance keeps them, the create
\* options carry them unchanged, and so does the server the create submits,
\* which the lookups of the client return.
C27_TagsCarried ==
  \A w \in Workers :
    LET c == call[w] IN
    /\ Built(c) => c.spec.Tags = OwnTags(c)
    /\ Creating(c) => c.spec.Tags = OwnTags(c)
    /\ (c.provider /\ IsCreate(c)) =>
         /\ c.opts.Tags = OwnTags(c)
         /\ c.tags = OwnTags(c)
         /\ \A i \in 1..Len(remote) :
              remote[i].ID = c.created =>
                /\ remote[i].Tags = OwnTags(c)
                /\ HasOwnTag(remote[i].Tags)
                /\ Visible(remote[i], c.data.PoolID)

\* A CreateInstance with an override document returned the server it
\* submitted, which carries the tags of the request.
C27_Witness ==
  \E w \in Workers :
    /\ call[w].provider /\ IsCreate(call[w])
    /\ call[w].pc = "done" /\ call[w].err = NoErr
    /\ PresentKeys(call[w].data.ExtraSpecs) # {}
    /\ call[w].srv.ID = call[w].created
    /\ Present(call[w].created)
    /\ ServerByID(call[w].created).Tags = OwnTags(call[w])

\* The image of a CreateInstance was resolved.
ImageResolved(c) ==
  c.provider /\ \E i \in 1..Len(c.steps) : c.steps[i] = Lookup("GetImage", "ok")

\* The effective list of allowed owners: the list of the document when it is
\* present and non-empty, otherwise the list of the configuration.
EffectiveOwners(c) ==
  IF Doc(c).allowed_image_owners.t = "array"
       /\ Len(Doc(c).allowed_image_owners.v) > 0
    THEN Doc(c).allowed_image_owners.v
  ELSE c.cfg.AllowedImageOwners

\* C30: when the effective list of allowed owners is non-empty and the owner
\* of the resolved image is not in it, CreateInstance fails and submits no
\* create request; when the list is empty, or holds the owner, the image is
\* allowed.
C30_OwnerAllowlist ==
  \A w \in Workers :
    LET c == call[w]
        owners == EffectiveOwners(c)
        listed == \E i \in 1..Len(owners) : owners[i] = c.image.Owner
    IN ImageResolved(c) =>
         IF owners # << >> /\ ~listed
           THEN /\ c.pc = "done"
                /\ c.err = <<"image owner is not allowed">>
                /\ Events(c, "Create") = {}
                /\ c.created = ""
         ELSE c.err # <<"image owner is not allowed">>

\* ---- the provider specification: C31, C32
\* C31: when the configuration has disable_updates_on_boot set, the user
\* data composed for the new server has updates on boot disabled, whatever
\* the override document holds.
C31_DisableUpdatesNotOverwritten ==
  \A w \in Workers :
    LET c == call[w] IN
    (c.provider /\ IsCreate(c) /\ c.cfg.DisableUpdatesOnBoot) =>
      c.opts.UserData.DisableUpdatesOnBoot

\* C32: the size of the root disk of a create by volume is the
\* boot_disk_size of the override document when present; otherwise the
\* root_disk_size of the configuration when set; otherwise the root disk
\* size of the resolved flavor; and 50 GB only when the flavor defines none.
C32_BootDiskSizePrecedence ==
  \A w \in Workers :
    LET c == call[w] IN
    (c.provider /\ c.op = "CreateServerFromVolume") =>
      c.blockDevice.VolumeSize =
        IF Doc(c).boot_disk_size = JInt("150") THEN 150
        ELSE IF Doc(c).boot_disk_size = JInt("0") THEN 0
        ELSE IF c.cfg.BootDiskSize.set THEN c.cfg.BootDiskSize.v
        ELSE IF c.flavor.Disk > 0 THEN c.flavor.Disk
        ELSE 50

\* ---- the provider's listing and removal: C33, C34
\* The positions of the servers of the tenant that carry the pool tag of
\* poolID and the controller tag of the client.
InPool(poolID) ==
  {i \in 1..Len(remote) :
     /\ Tag(poolIDTagName, poolID) \in TagSet(remote[i].Tags)
     /\ Tag(controllerIDTagName, controllerID) \in TagSet(remote[i].Tags)}

\* The k-th position of a set of positions, in listing order.
Nth(positions, k) ==
  CHOOSE i \in positions : Cardinality({j \in positions : j <= i}) = k

\* C33: a ListInstances(poolID) that succeeds returns one instance per server
\* of the tenant carrying both garm-pool-id=<poolID> and the controller tag
\* of the client, in listing order, and none for any other server; it sends
\* listing requests only and leaves the tenant as it was.
C33_ListInstancesScopedInOrder ==
  [][\A w \in Workers :
       ( /\ call[w].pc = "idle"
         /\ call'[w].op = "ListInstances"
         /\ call'[w].err = NoErr )
       => LET c == call'[w]
              positions == InPool(c.nameOrID)
          IN /\ Len(c.instances) = Cardinality(positions)
             /\ \A k \in 1..Len(c.instances) :
                  k <= Cardinality(positions) =>
                    /\ c.instances[k].ProviderID = remote[Nth(positions, k)].ID
                    /\ c.instances[k].Name = remote[Nth(positions, k)].Name
             /\ remote' = remote
             /\ \A i \in 1..Len(c.log) : c.log[i].req = "List"]_vars

\* A listing returned both servers of a pool, or one of two servers while
\* the other lacks a tag.
C33_Witness ==
  \E w \in Workers :
    LET c == call[w] IN
    /\ c.op = "ListInstances" /\ c.pc = "done" /\ c.err = NoErr
    /\ Len(remote) = 2
    /\ InPool(c.nameOrID) = {2}
    /\ Len(c.instances) = 1
    /\ c.instances[1].ProviderID = remote[2].ID

C35_FailedCreateKeepsOthers ==
  \A w \in Workers :
    LET c == call[w] IN
    (IsCreate(c) /\ c.pc = "done" /\ c.err # NoErr) =>
      \A i \in Events(c, "ForceDelete") :
        c.log[i].res = "ok" => c.log[i].id = c.created

\* C36: a DeleteServer that saw the status ERROR while it waited for a server
\* to disappear does not fail for it: it goes on polling, and when it has
\* returned its error, if any, is not "instance in ERROR state".
C36_DeleteOfErrorServerSucceeds ==
  \A w \in Workers :
    LET c == call[w] IN
    (c.op = "DeleteServer" /\ c.pc = "done") =>
      \A i \in 1..Len(c.log) :
        (c.log[i].at = "waitDELETED" /\ c.log[i].res = "ERROR") =>
          Cause(c.err) # "instance in ERROR state"

\* The requests of the DeleteServer of a call: its force-deletes and the
\* polls of its waits for DELETED.
DeleteEvents(c) ==
  {i \in 1..Len(c.log) : c.log[i].at \in {"delete", "waitDELETED"}}

\* A request of a DeleteServer that makes the delete of one match fail: a
\* force-delete that failed, a poll that failed or saw ERROR.
FailsDelete(e) ==
  \/ e.req = "ForceDelete" /\ e.res = "error"
  \/ e.at = "waitDELETED" /\ e.res \in {"error", "ERROR"}

\* The DeleteServer of the call force-deleted the server and saw it gone.
Deleted(c, id) ==
  \E i \in DeleteEvents(c) :
    /\ c.log[i].req = "ForceDelete" /\ c.log[i].id = id
    /\ c.log[i].res \in {"ok", "404"}
    /\ c.log[i].res = "ok" =>
         \E j \in Polls(c, "waitDELETED", id) :
           j > i /\ c.log[j].res \in {"404", "DELETED"}

\* The place of a server ID in the order the remote hands IDs out.
Position(id) == CHOOSE k \in 1..Len(UUIDPool) : UUIDPool[k] = id

\* C37: DeleteServer deletes its matches one at a time in listing order and
\* stops at the first match whose force-delete or poll fails: it sends no
\* further request and returns "failed to delete server with ID" for that
\* server; the matches before it have been deleted and no force-delete has
\* been sent for the matches after it.
C37_DeleteStopsAtFirstFailure ==
  \A w \in Workers :
    LET c == call[w]
        last == c.log[Len(c.log)]
    IN
    InDelete(c) =>
      /\ \A i, j \in 1..Len(remote) :
           i < j => Position(remote[i].ID) < Position(remote[j].ID)
      /\ \A i, j \in Events(c, "ForceDelete") :
           i < j => Position(c.log[i].id) < Position(c.log[j].id)
      /\ \A i \in DeleteEvents(c) :
           FailsDelete(c.log[i]) =>
             /\ i = Len(c.log)
             /\ c.pc = "done"
             /\ DeleteResult(c) # NoErr
             /\ Head(DeleteResult(c)) = "failed to delete server with ID"
             /\ c.failedID = c.log[i].id
      /\ ( /\ c.pc = "done"
           /\ DeleteResult(c) # NoErr
           /\ Head(DeleteResult(c)) = "failed to delete server with ID" )
         => /\ c.results # << >>
            /\ c.failedID = Head(c.results).ID
            /\ c.failedID = last.id
            /\ last.at \in {"delete", "waitDELETED"}
            /\ \A k \in 2..Len(c.results) :
                 \A i \in Events(c, "ForceDelete") :
                   c.log[i].id # c.results[k].ID
            /\ \A s \in c.resolved :
                 (\A k \in 1..Len(c.results) : c.results[k].ID # s.ID)
                   => Deleted(c, s.ID)

\* A DeleteServer by name found two servers, failed on the first and left
\* the second alone.
C37_Witness ==
  \E w \in Workers :
    LET c == call[w] IN
    /\ c.op = "DeleteServer" /\ c.pc = "done" /\ ~isUUID(c.nameOrID)
    /\ Cardinality(c.resolved) = 2
    /\ Len(c.results) = 2
    /\ Head(c.err) = "failed to delete server with ID"
    /\ c.failedID = c.results[1].ID
    /\ FailsDelete(c.log[Len(c.log)])
    /\ \A i \in Events(c, "ForceDelete") : c.log[i].id = c.failedID

\* ---- the provider specification: C38
\* The catalogue requests of CreateInstance in their order.
LookupOrder == <<"GetFlavor", "GetNetwork", "GetImage">>

\* A step of CreateInstance before the create failed: the build of the
\* specification, a catalogue request, or the owner check.
StepFailed(c) ==
  \/ c.spec.nil
  \/ \E i \in 1..Len(c.steps) : c.steps[i].res = "error"
  \/ ImageResolved(c) /\ ~OwnerAllowed(c.spec, c.image)

\* C38: CreateInstance sends the create request only after the specification
\* validated, the flavor, the network and the image were resolved in that
\* order and the owner check passed; when one of these steps fails it returns
\* an error having sent no create and no delete request; the create is by
\* volume exactly when the validated specification boots from a volume.
C38_CreateAfterResolution ==
  \A w \in Workers :
    LET c == call[w] IN
    (c.provider /\ c.pc # "idle") =>
      /\ Len(c.steps) <= Len(LookupOrder)
      /\ \A i \in 1..Len(c.steps) :
           /\ i <= Len(LookupOrder) => c.steps[i].req = LookupOrder[i]
           /\ c.steps[i].res = "error" => i = Len(c.steps)
      /\ c.steps # << >> => ~c.spec.nil
      /\ ~c.spec.nil => Validate(c.spec) = NoErr
      /\ (c.log # << >> \/ IsCreate(c)) =>
           /\ ~c.spec.nil
           /\ c.steps = <<Lookup("GetFlavor", "ok"), Lookup("GetNetwork", "ok"),
                          Lookup("GetImage", "ok")>>
           /\ OwnerAllowed(c.spec, c.image)
           /\ IsCreate(c)
           /\ c.log # << >> => c.log[1].req = "Create"
           /\ (c.op = "CreateServerFromVolume") <=> Returned(c).BootFromVolume
      /\ StepFailed(c) =>
           /\ c.pc = "done"
           /\ c.op = "CreateInstance"
           /\ c.err # NoErr
           /\ c.log = << >>

\* CreateInstance went through every step and sent a create by volume for a
\* document that asks for it under a configuration that does not.
C38_Witness ==
  \E w \in Workers :
    LET c == call[w] IN
    /\ c.provider /\ c.op = "CreateServerFromVolume"
    /\ ~c.cfg.BootFromVolume
    /\ Len(c.steps) = 3
    /\ Events(c, "Create") # {}

====
